---- MODULE Spec2Model ----
(***************************************************************************)
(* A model of the Sui authority state machine (sui_core/src/authority.rs): *)
(* transaction intake and locking, certificate confirmation and commit,    *)
(* shared-object sequencing from consensus, and the notifier that orders   *)
(* the commit log.  Every handler is split at its accesses to shared state *)
(* (database reads and writes, notifier operations); the handlers run as   *)
(* concurrent tasks, so these steps interleave freely.                     *)
(*                                                                         *)
(* The storage layer (authority_store), the notifier (authority_notifier), *)
(* the input checker and the execution engine are called by authority.rs   *)
(* but are not part of the sources at hand; they are modelled from their   *)
(* documented contracts.                                                   *)
(***************************************************************************)
EXTENDS Integers, Sequences, FiniteSets, TLC

VARIABLES
    objects,              \* object id -> current version (the object store)
    parent_sync,          \* <<id, version, digest>>: the digest produced that ref
    transaction_lock,     \* owned ObjectRef -> holder digest, or NoTx
    transactions,         \* digests with a stored SignedTransaction
    certificates,         \* digests with a stored certificate
    effects,              \* digest -> stored effects, or NoEffects
    executed_sequence,    \* set of <<sequence number, digest>>
    sequenced,            \* <<digest, shared id>> -> assigned version, 0 = none
    schedule,             \* shared id -> next version to assign
    last_consensus_index, \* persisted consensus progress index
    next_ticket,          \* notifier: next ticket to issue
    inflight,             \* notifier: tickets issued and not yet resolved
    low_watermark,        \* notifier: every ticket below it is resolved
    log,                  \* what a batch subscriber has observed
    proc,                 \* task -> the call it is running and its position
    last,                 \* the call that returned in the last step, if any
    calls,                \* client calls started so far
    deliveries,           \* consensus deliveries so far
    exec_count,           \* digest -> invocations of the execution engine
    write_count,          \* digest -> database commits of its effects
    assign_order,         \* digests in the order the sequencer assigned them
    assigned_at,          \* digest -> consensus index it was assigned at, 0 = none
    refused,              \* digests a confirmation was refused for, lock not set
    crashes,              \* crashes so far
    max_calls,            \* client calls the run admits
    batches,              \* the sealed batches, in order
    unbatched,            \* batch maker: digests received and not yet batched
    elapsed,              \* batch maker: milliseconds since the last batch
    consensus_guardrail,  \* the counter behind the consensus write lock
    writers,              \* consensus executor -> "idle" or "holding" the write lock
    asks,                 \* calls of ask_consensus_write_lock so far
    rx_consensus_to_sui,  \* the channel from consensus: certificates (by number) waiting
    produced,             \* certificates consensus has put into the channel
    consumed,             \* certificates the listener has taken out of it
    producer_waiting,     \* consensus waits in send for room in the channel
    sends                 \* send calls followed so far

db == <<objects, parent_sync, transaction_lock, transactions, certificates, effects,
        executed_sequence, sequenced, schedule, last_consensus_index>>
notifier == <<next_ticket, inflight, low_watermark, log>>
ghost == <<exec_count, write_count, assign_order, assigned_at, refused>>
maker == <<unbatched, elapsed>>
guardrail == <<consensus_guardrail, writers, asks>>
channel == <<rx_consensus_to_sui, produced, consumed, producer_waiting, sends>>
rest == <<maker, guardrail, channel>>
vars == <<db, notifier, proc, last, calls, deliveries, ghost, crashes, max_calls, batches, rest>>

----------------------------------------------------------------------------
(* Bounds of the exploration. *)

MaxCalls == 2
MaxDeliveries == 2
MaxCrashes == 1
MaxE2ECalls == 4
MaxBatchCalls == 3
MaxBatches == 3
MaxAsks == 10
MaxSends == 6

----------------------------------------------------------------------------
(* The world: objects, transactions and certificates. *)

Clients == {"c1", "c2"}
Consensus == "consensus"
Tasks == Clients \cup {Consensus}

OwnedIds == {"A", "B", "C", "D"}
SharedIds == {"S", "S2"}
ObjectIds == OwnedIds \cup SharedIds
OBJECT_START_VERSION == 1

Txs == {"T1", "T2", "T3", "T4", "T5"}

\* Owned input references, in input order.  T5 is the fresh transaction that
\* references B at the version T1 produces.
OwnedRefs(t) ==
    CASE t = "T1" -> << <<"A", 1>>, <<"B", 1>> >>
      [] t = "T2" -> << <<"B", 1>>, <<"C", 1>> >>
      [] t = "T3" -> << <<"C", 1>> >>
      [] t = "T4" -> << <<"D", 1>> >>
      [] t = "T5" -> << <<"B", 2>> >>

\* Shared input object ids, sorted.
SharedInputs(t) ==
    CASE t = "T3" -> << "S" >>
      [] t = "T4" -> << "S", "S2" >>
      [] OTHER -> << >>

Range(s) == {s[i] : i \in DOMAIN s}

\* A quorum forms for at most one of two conflicting transactions: T2
\* conflicts with T1 and T3 and is never certified; T5 follows T1 on B.  A
\* certificate with a bad quorum signature can be presented for any
\* transaction.
Certifiable == {"T1", "T3", "T4", "T5"}

AllRefs == UNION {Range(OwnedRefs(t)) : t \in Txs}

NoTx == "none"
NoEffects == [status |-> "none", inputs |-> {}]
NoCall == [op |-> "none"]

\* A u64 from 2^63 up is carried as the integer 2^64 less: u64::MAX is -1.
\* Addition of integers is then the wrapping addition of u64, and the order
\* of u64 puts the negative integers above the others.
U64_MAX == -1
U64Lt(a, b) == IF (a < 0) = (b < 0) THEN a < b ELSE b < 0
U64Le(a, b) == a = b \/ U64Lt(a, b)

\* BatchInfoRequest: start is Some(sequence number) or NoStart (None).
NoStart == << >>
Some(v) == << v >>
NoRequest == [start |-> NoStart, length |-> 0]
MAX_ITEMS_LIMIT == 100000

----------------------------------------------------------------------------
(* Responses and errors. *)

Ok(info) == [ok |-> TRUE, info |-> info]
Err(kind, detail) == [ok |-> FALSE, err |-> kind, detail |-> detail]
NoErr == Err("none", << >>)

Idle == [pc |-> "idle", op |-> "none", tx |-> NoTx, sigok |-> TRUE,
         err |-> NoErr, snap |-> {}, fx |-> NoEffects, ticket |-> -1,
         index |-> 0, req |-> NoRequest, range_start |-> 0]

\* The call of task p returns res: the task is idle again.
Return(p, op, t, sigok, res) ==
    /\ proc' = [proc EXCEPT ![p] = Idle]
    /\ last' = [op |-> op, tx |-> t, sigok |-> sigok, task |-> p, res |-> res,
                snap |-> proc[p].snap]

\* Task p moves on inside its call.
Goto(p, rec) ==
    /\ proc' = [proc EXCEPT ![p] = rec]
    /\ last' = NoCall

----------------------------------------------------------------------------
(* The store, as authority.rs uses it. *)

transaction_exists(d) == d \in transactions

effects_exists(d) == effects[d] # NoEffects

get_signed_transaction_info(d) ==
    [signed_transaction |-> d \in transactions,
     certified_transaction |-> d \in certificates,
     signed_effects |-> effects[d]]

make_transaction_info(d) == get_signed_transaction_info(d)

\* The input checker: every owned input is referenced at its current version.
check_transaction_input(t) ==
    \A r \in Range(OwnedRefs(t)) : objects[r[1]] = r[2]

\* Positions of refs held by a transaction other than t.
LockConflicts(refs, t) ==
    {i \in DOMAIN refs : transaction_lock[refs[i]] \notin {NoTx, t}}

Min(S) == CHOOSE x \in S : \A y \in S : x <= y

\* AuthorityStore::set_transaction_lock, the compare: the conflict found
\* first in the list, or none.
store_lock_outcome(refs, t) ==
    IF LockConflicts(refs, t) # {}
    THEN Err("ConflictingTransaction",
             << transaction_lock[refs[Min(LockConflicts(refs, t))]] >>)
    ELSE NoErr

\* AuthorityStore::set_transaction_lock, the write: all refs and the signed
\* transaction go in one batch.
store_lock_write(refs, t) ==
    /\ transaction_lock' = [r \in DOMAIN transaction_lock |->
            IF r \in Range(refs) THEN t ELSE transaction_lock[r]]
    /\ transactions' = transactions \cup {t}

\* Mutant: the store's answer is dropped.
set_transaction_lock_unchecked(refs, t) == NoErr

\* Mutant: a ref that has any holder, the caller included, is a conflict.
set_transaction_lock_holder_conflicts(refs, t) ==
    IF \E i \in DOMAIN refs : transaction_lock[refs[i]] # NoTx
    THEN Err("ConflictingTransaction",
             << transaction_lock[refs[Min({i \in DOMAIN refs :
                                             transaction_lock[refs[i]] # NoTx})]] >>)
    ELSE NoErr

\* AuthorityState::set_transaction_lock hands the refs and the signed
\* transaction to the store and returns its answer.
set_transaction_lock(refs, t) == store_lock_outcome(refs, t)

\* filter_owned_objects: the refs handle_transaction_impl locks.
owned_objects(t) == OwnedRefs(t)

----------------------------------------------------------------------------
(* handle_transaction *)

\* Mutant: a transaction that is already stored is answered with an error.
HandleTransaction_already_known_is_error(p, t, sigok) ==
    /\ proc[p].pc = "idle"
    /\ calls < max_calls
    /\ calls' = calls + 1
    /\ IF ~sigok
       THEN Return(p, "handle_transaction", t, sigok, Err("SignatureError", << >>))
       ELSE IF transaction_exists(t)
       THEN Return(p, "handle_transaction", t, sigok,
                   Err("TransactionAlreadyProcessed", << >>))
       ELSE Goto(p, [Idle EXCEPT !.pc = "ht_check", !.op = "handle_transaction",
                                 !.tx = t, !.sigok = sigok])
    /\ UNCHANGED <<db, notifier, deliveries, ghost, crashes, max_calls, batches, rest>>

\* Mutant: the stored transaction is looked up before the signature is verified.
HandleTransaction_lookup_first(p, t, sigok) ==
    /\ proc[p].pc = "idle"
    /\ calls < max_calls
    /\ calls' = calls + 1
    /\ IF transaction_exists(t)
       THEN Return(p, "handle_transaction", t, sigok, Ok(make_transaction_info(t)))
       ELSE IF ~sigok
       THEN Return(p, "handle_transaction", t, sigok, Err("SignatureError", << >>))
       ELSE Goto(p, [Idle EXCEPT !.pc = "ht_check", !.op = "handle_transaction",
                                 !.tx = t, !.sigok = sigok])
    /\ UNCHANGED <<db, notifier, deliveries, ghost, crashes, max_calls, batches, rest>>

\* The call starts: the sender signature is verified, then
\* handle_transaction_impl asks whether the transaction is already stored.
HandleTransaction(p, t, sigok) ==
    /\ proc[p].pc = "idle"
    /\ calls < max_calls
    /\ calls' = calls + 1
    /\ IF ~sigok
       THEN Return(p, "handle_transaction", t, sigok, Err("SignatureError", << >>))
       ELSE IF transaction_exists(t)
       THEN Return(p, "handle_transaction", t, sigok, Ok(make_transaction_info(t)))
       ELSE Goto(p, [Idle EXCEPT !.pc = "ht_check", !.op = "handle_transaction",
                                 !.tx = t, !.sigok = sigok])
    /\ UNCHANGED <<db, notifier, deliveries, ghost, crashes, max_calls, batches, rest>>

\* check_transaction_input reads the input objects.
HtCheckInput(p) ==
    /\ proc[p].pc = "ht_check"
    /\ IF check_transaction_input(proc[p].tx)
       THEN Goto(p, [proc[p] EXCEPT !.pc = "ht_lock"])
       ELSE Goto(p, [proc[p] EXCEPT !.pc = "ht_err",
                                    !.err = Err("InputCheckFailed", << >>)])
    /\ UNCHANGED <<db, notifier, calls, deliveries, ghost, crashes, max_calls, batches, rest>>

\* Mutant: the refs before the first conflict stay locked when the call fails.
HtSetLock_partial(p) ==
    /\ proc[p].pc = "ht_lock"
    /\ LET t == proc[p].tx
           refs == owned_objects(t)
           r == set_transaction_lock(refs, t)
       IN IF r = NoErr
          THEN /\ store_lock_write(refs, t)
               /\ Goto(p, [proc[p] EXCEPT !.pc = "ht_info"])
          ELSE /\ transaction_lock' = [x \in DOMAIN transaction_lock |->
                      IF \E i \in DOMAIN refs :
                            refs[i] = x /\ i < Min(LockConflicts(refs, t))
                      THEN t ELSE transaction_lock[x]]
               /\ UNCHANGED transactions
               /\ Goto(p, [proc[p] EXCEPT !.pc = "ht_err", !.err = r])
    /\ UNCHANGED <<objects, parent_sync, certificates, effects, executed_sequence,
                   sequenced, schedule, last_consensus_index>>
    /\ UNCHANGED <<notifier, calls, deliveries, ghost, crashes, max_calls, batches, rest>>

\* set_transaction_lock: compare and write, in one step of the store.
HtSetLock(p) ==
    /\ proc[p].pc = "ht_lock"
    /\ LET t == proc[p].tx
           r == set_transaction_lock(owned_objects(t), t)
       IN IF r = NoErr
          THEN /\ store_lock_write(owned_objects(t), t)
               /\ Goto(p, [proc[p] EXCEPT !.pc = "ht_info"])
          ELSE /\ UNCHANGED <<transaction_lock, transactions>>
               /\ Goto(p, [proc[p] EXCEPT !.pc = "ht_err", !.err = r])
    /\ UNCHANGED <<objects, parent_sync, certificates, effects, executed_sequence,
                   sequenced, schedule, last_consensus_index>>
    /\ UNCHANGED <<notifier, calls, deliveries, ghost, crashes, max_calls, batches, rest>>

\* make_transaction_info after the locks are set.
HtInfo(p) ==
    /\ proc[p].pc = "ht_info"
    /\ Return(p, "handle_transaction", proc[p].tx, proc[p].sigok,
              Ok(make_transaction_info(proc[p].tx)))
    /\ UNCHANGED <<db, notifier, calls, deliveries, ghost, crashes, max_calls, batches, rest>>

\* Mutant: the error of handle_transaction_impl is dropped.
HtError_always_info(p) ==
    /\ proc[p].pc = "ht_err"
    /\ Return(p, "handle_transaction", proc[p].tx, proc[p].sigok,
              Ok(make_transaction_info(proc[p].tx)))
    /\ UNCHANGED <<db, notifier, calls, deliveries, ghost, crashes, max_calls, batches, rest>>

\* Mutant: the error of handle_transaction_impl is always returned.
HtError_never_info(p) ==
    /\ proc[p].pc = "ht_err"
    /\ Return(p, "handle_transaction", proc[p].tx, proc[p].sigok, proc[p].err)
    /\ UNCHANGED <<db, notifier, calls, deliveries, ghost, crashes, max_calls, batches, rest>>

\* handle_transaction on an error of handle_transaction_impl: Ok when the
\* certificate was already processed, the error otherwise.
HtError(p) ==
    /\ proc[p].pc = "ht_err"
    /\ IF effects_exists(proc[p].tx)
       THEN Return(p, "handle_transaction", proc[p].tx, proc[p].sigok,
                   Ok(make_transaction_info(proc[p].tx)))
       ELSE Return(p, "handle_transaction", proc[p].tx, proc[p].sigok, proc[p].err)
    /\ UNCHANGED <<db, notifier, calls, deliveries, ghost, crashes, max_calls, batches, rest>>

----------------------------------------------------------------------------
(* The execution engine: a deterministic function of the transaction and   *)
(* the input objects read.  T4 fails in its business logic; its effects    *)
(* carry the failure.                                                      *)

ExecutionStatus(t) == IF t = "T4" THEN "failure" ELSE "success"

\* The engine returns an error, and no effects, for T5.
engine_error(t) == t = "T5"

execute_transaction_to_effects(t, inputs) ==
    [status |-> ExecutionStatus(t), inputs |-> inputs]

\* The objects read for a certificate, as <<id, version>>: the owned inputs
\* at the referenced versions and the shared inputs at their current ones.
InputObjects(t) ==
    Range(OwnedRefs(t)) \cup {<<o, objects[o]>> : o \in Range(SharedInputs(t))}

\* process_certificate: the references of the shared inputs, computed from
\* the objects read, in sorted order.
shared_object_refs(t, snap) ==
    [i \in DOMAIN SharedInputs(t) |->
        CHOOSE r \in snap : r[1] = SharedInputs(t)[i]]

\* all_shared_locks: the assignments of a digest.
all_shared_locks(d) ==
    {<<o, sequenced[<<d, o>>]>> : o \in {x \in SharedIds : sequenced[<<d, x>>] # 0}}

SelectErrors(s) == SelectSeq(s, LAMBDA e : e.err # "none")

\* Mutant: an assigned version is not compared with the version presented.
check_shared_locks_no_compare(d, refs) ==
    SelectErrors([i \in DOMAIN refs |->
        IF \A l \in all_shared_locks(d) : l[1] # refs[i][1]
        THEN [err |-> "SharedObjectLockNotSetObject", object_id |-> refs[i][1],
              expected_sequence |-> 0, given_sequence |-> 0]
        ELSE [err |-> "none", object_id |-> refs[i][1],
              expected_sequence |-> 0, given_sequence |-> 0]])

\* Mutant: a reference without assignment is let through.
check_shared_locks_unset_passes(d, refs) ==
    SelectErrors([i \in DOMAIN refs |->
        IF sequenced[<<d, refs[i][1]>>] \notin {0, refs[i][2]}
        THEN [err |-> "UnexpectedSequenceNumber", object_id |-> refs[i][1],
              expected_sequence |-> sequenced[<<d, refs[i][1]>>],
              given_sequence |-> refs[i][2]]
        ELSE [err |-> "none", object_id |-> refs[i][1],
              expected_sequence |-> 0, given_sequence |-> 0]])

\* Mutant: the check stops at the first offending reference.
check_shared_locks_first_only(d, refs) ==
    LET all == SelectErrors([i \in DOMAIN refs |->
                   IF \A l \in all_shared_locks(d) : l[1] # refs[i][1]
                   THEN [err |-> "SharedObjectLockNotSetObject", object_id |-> refs[i][1],
                         expected_sequence |-> 0, given_sequence |-> 0]
                   ELSE IF sequenced[<<d, refs[i][1]>>] # refs[i][2]
                   THEN [err |-> "UnexpectedSequenceNumber", object_id |-> refs[i][1],
                         expected_sequence |-> sequenced[<<d, refs[i][1]>>],
                         given_sequence |-> refs[i][2]]
                   ELSE [err |-> "none", object_id |-> refs[i][1],
                         expected_sequence |-> 0, given_sequence |-> 0]])
    IN IF all = << >> THEN << >> ELSE << all[1] >>

\* check_shared_locks: the lock errors, one per offending reference, in
\* input order; empty when the check passes.
check_shared_locks(d, refs) ==
    SelectErrors([i \in DOMAIN refs |->
        IF \A l \in all_shared_locks(d) : l[1] # refs[i][1]
        THEN [err |-> "SharedObjectLockNotSetObject", object_id |-> refs[i][1],
              expected_sequence |-> 0, given_sequence |-> 0]
        ELSE IF sequenced[<<d, refs[i][1]>>] # refs[i][2]
        THEN [err |-> "UnexpectedSequenceNumber", object_id |-> refs[i][1],
              expected_sequence |-> sequenced[<<d, refs[i][1]>>],
              given_sequence |-> refs[i][2]]
        ELSE [err |-> "none", object_id |-> refs[i][1],
              expected_sequence |-> 0, given_sequence |-> 0]])

----------------------------------------------------------------------------
(* The notifier. *)

\* TransactionNotifier::ticket
notifier_ticket ==
    /\ next_ticket' = next_ticket + 1
    /\ inflight' = inflight \cup {next_ticket}

RECURSIVE SortedEntries(_)
SortedEntries(S) ==
    IF S = {} THEN << >>
    ELSE LET e == CHOOSE x \in S : \A y \in S : x[1] <= y[1]
         IN << e >> \o SortedEntries(S \ {e})

\* Dropping a ticket resolves it: the low watermark moves up to the lowest
\* ticket still in flight, and the entries written below it become visible
\* to the subscribers, in sequence order.
notifier_resolve(k) ==
    LET left == inflight \ {k}
        low == IF left = {} THEN next_ticket ELSE Min(left)
    IN /\ inflight' = left
       /\ low_watermark' = low
       /\ log' = log \o SortedEntries({e \in executed_sequence :
                                            low_watermark <= e[1] /\ e[1] < low})
       /\ UNCHANGED next_ticket

----------------------------------------------------------------------------
(* The store's commit and the sequencer's write. *)

\* Mutant: a commit moves on the owned inputs and leaves the shared ones.
store_update_state_shared_stay(t, fx, seq) ==
    /\ certificates' = certificates \cup {t}
    /\ effects' = [effects EXCEPT ![t] = fx]
    /\ objects' = [o \in ObjectIds |->
            IF o \notin SharedIds /\ \E r \in fx.inputs : r[1] = o
            THEN (CHOOSE r \in fx.inputs : r[1] = o)[2] + 1
            ELSE objects[o]]
    /\ parent_sync' = parent_sync \cup {<<r[1], r[2] + 1, t>> : r \in fx.inputs}
    /\ transaction_lock' = [r \in DOMAIN transaction_lock |->
            IF r \in Range(OwnedRefs(t)) THEN NoTx ELSE transaction_lock[r]]
    /\ executed_sequence' = IF seq >= 0 THEN executed_sequence \cup {<<seq, t>>}
                            ELSE executed_sequence
    /\ UNCHANGED <<transactions, sequenced, schedule, last_consensus_index>>

\* AuthorityStore::update_state: one atomic write of the certificate, the
\* effects, the new object versions and parent entries, the release of the
\* owned-input locks and, when a sequence number is given (seq >= 0), the
\* sequence-number entry.
store_update_state(t, fx, seq) ==
    /\ certificates' = certificates \cup {t}
    /\ effects' = [effects EXCEPT ![t] = fx]
    /\ objects' = [o \in ObjectIds |->
            IF \E r \in fx.inputs : r[1] = o
            THEN (CHOOSE r \in fx.inputs : r[1] = o)[2] + 1
            ELSE objects[o]]
    /\ parent_sync' = parent_sync \cup {<<r[1], r[2] + 1, t>> : r \in fx.inputs}
    /\ transaction_lock' = [r \in DOMAIN transaction_lock |->
            IF r \in Range(OwnedRefs(t)) THEN NoTx ELSE transaction_lock[r]]
    /\ executed_sequence' = IF seq >= 0 THEN executed_sequence \cup {<<seq, t>>}
                            ELSE executed_sequence
    /\ UNCHANGED <<transactions, sequenced, schedule, last_consensus_index>>

\* Mutant: the next version of a shared object is handed out and not moved on.
persist_certificate_and_lock_shared_objects_no_bump(t, index) ==
    /\ certificates' = certificates \cup {t}
    /\ sequenced' = [k \in DOMAIN sequenced |->
            IF k[1] = t /\ k[2] \in Range(SharedInputs(t))
            THEN schedule[k[2]] ELSE sequenced[k]]
    /\ last_consensus_index' = index
    /\ UNCHANGED <<objects, parent_sync, transaction_lock, transactions, effects,
                   executed_sequence, schedule>>

\* AuthorityStore::persist_certificate_and_lock_shared_objects: one atomic
\* write of the certificate, the next version of every shared input and the
\* consensus index.
persist_certificate_and_lock_shared_objects(t, index) ==
    /\ certificates' = certificates \cup {t}
    /\ sequenced' = [k \in DOMAIN sequenced |->
            IF k[1] = t /\ k[2] \in Range(SharedInputs(t))
            THEN schedule[k[2]] ELSE sequenced[k]]
    /\ schedule' = [o \in SharedIds |->
            IF o \in Range(SharedInputs(t)) THEN schedule[o] + 1 ELSE schedule[o]]
    /\ last_consensus_index' = index
    /\ UNCHANGED <<objects, parent_sync, transaction_lock, transactions, effects,
                   executed_sequence>>

----------------------------------------------------------------------------
(* handle_confirmation_transaction *)

\* Mutant: the certificate is verified before the idempotency check.
ConfirmationEntry_verify_first(p, op, t, sigok, index) ==
    IF ~sigok
    THEN Return(p, op, t, sigok, Err("SignatureError", << >>))
    ELSE IF effects_exists(t)
    THEN Return(p, op, t, sigok, Ok(make_transaction_info(t)))
    ELSE Goto(p, [Idle EXCEPT !.pc = "hc_check", !.op = op, !.tx = t,
                              !.sigok = sigok, !.index = index])

\* The head of handle_confirmation_transaction: the idempotency check, then
\* the check of the quorum signature.
ConfirmationEntry(p, op, t, sigok, index) ==
    IF effects_exists(t)
    THEN Return(p, op, t, sigok, Ok(make_transaction_info(t)))
    ELSE IF ~sigok
    THEN Return(p, op, t, sigok, Err("SignatureError", << >>))
    ELSE Goto(p, [Idle EXCEPT !.pc = "hc_check", !.op = op, !.tx = t,
                              !.sigok = sigok, !.index = index])

\* A client calls handle_confirmation_transaction.
HandleConfirmation(p, t, sigok) ==
    /\ proc[p].pc = "idle"
    /\ calls < max_calls
    /\ sigok => t \in Certifiable
    /\ calls' = calls + 1
    /\ ConfirmationEntry(p, "handle_confirmation_transaction", t, sigok, 0)
    /\ UNCHANGED <<db, notifier, deliveries, ghost, crashes, max_calls, batches, rest>>

\* Mutant: a certificate is refused unless this authority signed its
\* transaction before.
HcCheckInput_needs_signed(p) ==
    /\ proc[p].pc = "hc_check"
    /\ LET t == proc[p].tx
       IN IF check_transaction_input(t) /\ t \in transactions
          THEN Goto(p, [proc[p] EXCEPT
                    !.pc = IF SharedInputs(t) # << >> THEN "hc_locks" ELSE "hc_exec",
                    !.snap = InputObjects(t)])
          ELSE Return(p, proc[p].op, t, proc[p].sigok, Err("InputCheckFailed", << >>))
    /\ UNCHANGED <<db, notifier, calls, deliveries, ghost, crashes, max_calls, batches, rest>>

\* process_certificate: check_transaction_input reads the input objects.
HcCheckInput(p) ==
    /\ proc[p].pc = "hc_check"
    /\ LET t == proc[p].tx
       IN IF check_transaction_input(t)
          THEN Goto(p, [proc[p] EXCEPT
                    !.pc = IF SharedInputs(t) # << >> THEN "hc_locks" ELSE "hc_exec",
                    !.snap = InputObjects(t)])
          ELSE Return(p, proc[p].op, t, proc[p].sigok, Err("InputCheckFailed", << >>))
    /\ UNCHANGED <<db, notifier, calls, deliveries, ghost, crashes, max_calls, batches, rest>>

\* process_certificate: check_shared_locks for a certificate with shared inputs.
HcCheckSharedLocks(p) ==
    /\ proc[p].pc = "hc_locks"
    /\ LET t == proc[p].tx
           lock_errors == check_shared_locks(t, shared_object_refs(t, proc[p].snap))
       IN IF lock_errors = << >>
          THEN /\ Goto(p, [proc[p] EXCEPT !.pc = "hc_exec"])
               /\ UNCHANGED refused
          ELSE /\ Return(p, proc[p].op, t, proc[p].sigok, Err("LockErrors", lock_errors))
               /\ refused' = IF \E i \in DOMAIN lock_errors :
                                  lock_errors[i].err = "SharedObjectLockNotSetObject"
                             THEN refused \cup {t} ELSE refused
    /\ UNCHANGED <<db, notifier, calls, deliveries, exec_count, write_count,
                   assign_order, assigned_at, crashes, max_calls, batches, rest>>

\* Mutant: a failure status of the engine ends the call with an error.
HcExecute_failure_aborts(p) ==
    /\ proc[p].pc = "hc_exec"
    /\ exec_count' = [exec_count EXCEPT ![proc[p].tx] = @ + 1]
    /\ IF ExecutionStatus(proc[p].tx) = "failure" \/ engine_error(proc[p].tx)
       THEN Return(p, proc[p].op, proc[p].tx, proc[p].sigok,
                   Err("ExecutionFailure", << >>))
       ELSE Goto(p, [proc[p] EXCEPT !.pc = "hc_ticket",
                !.fx = execute_transaction_to_effects(proc[p].tx, proc[p].snap)])
    /\ UNCHANGED <<db, notifier, calls, deliveries, write_count, assign_order, assigned_at,
                   refused, crashes, max_calls, batches, rest>>

\* Mutant: the ticket is taken before the engine runs, and is left behind
\* when the engine returns an error.
HcExecute_ticket_first(p) ==
    /\ proc[p].pc = "hc_exec"
    /\ exec_count' = [exec_count EXCEPT ![proc[p].tx] = @ + 1]
    /\ IF engine_error(proc[p].tx)
       THEN /\ notifier_ticket
            /\ Return(p, proc[p].op, proc[p].tx, proc[p].sigok,
                      Err("ExecutionError", << >>))
       ELSE /\ Goto(p, [proc[p] EXCEPT !.pc = "hc_ticket",
                    !.fx = execute_transaction_to_effects(proc[p].tx, proc[p].snap)])
            /\ UNCHANGED <<next_ticket, inflight>>
    /\ UNCHANGED <<db, low_watermark, log, calls, deliveries, write_count, assign_order,
                   assigned_at, refused, crashes, max_calls, batches, rest>>

\* process_certificate: the execution engine computes the effects, or
\* returns an error that ends the call.
HcExecute(p) ==
    /\ proc[p].pc = "hc_exec"
    /\ exec_count' = [exec_count EXCEPT ![proc[p].tx] = @ + 1]
    /\ IF engine_error(proc[p].tx)
       THEN Return(p, proc[p].op, proc[p].tx, proc[p].sigok,
                   Err("ExecutionError", << >>))
       ELSE Goto(p, [proc[p] EXCEPT !.pc = "hc_ticket",
                !.fx = execute_transaction_to_effects(proc[p].tx, proc[p].snap)])
    /\ UNCHANGED <<db, notifier, calls, deliveries, write_count, assign_order, assigned_at,
                   refused, crashes, max_calls, batches, rest>>

\* Mutant: the ticket is not kept; it is dropped as soon as it is taken.
HcTicket_dropped_at_once(p) ==
    /\ proc[p].pc = "hc_ticket"
    /\ next_ticket' = next_ticket + 1
    /\ low_watermark' = IF inflight = {} THEN next_ticket + 1 ELSE Min(inflight)
    /\ log' = log \o SortedEntries({e \in executed_sequence :
                  low_watermark <= e[1] /\ e[1] < low_watermark'})
    /\ Goto(p, [proc[p] EXCEPT !.pc = "hc_update", !.ticket = next_ticket])
    /\ UNCHANGED <<db, inflight, calls, deliveries, ghost, crashes, max_calls, batches, rest>>

\* Mutant: the database is updated without a ticket.
HcTicket_skipped(p) ==
    /\ proc[p].pc = "hc_ticket"
    /\ Goto(p, [proc[p] EXCEPT !.pc = "hc_update"])
    /\ UNCHANGED <<db, notifier, calls, deliveries, ghost, crashes, max_calls, batches, rest>>

\* update_state: a ticket is taken from the notifier.
HcTicket(p) ==
    /\ proc[p].pc = "hc_ticket"
    /\ notifier_ticket
    /\ Goto(p, [proc[p] EXCEPT !.pc = "hc_update", !.ticket = next_ticket])
    /\ UNCHANGED <<db, low_watermark, log, calls, deliveries, ghost, crashes, max_calls, batches, rest>>

\* Mutant: no sequence number is handed to the store (None for Some(seq)).
HcUpdateState_no_sequence(p) ==
    /\ proc[p].pc = "hc_update"
    /\ store_update_state(proc[p].tx, proc[p].fx, -1)
    /\ write_count' = [write_count EXCEPT ![proc[p].tx] = @ + 1]
    /\ Goto(p, [proc[p] EXCEPT !.pc = "hc_drop"])
    /\ UNCHANGED <<notifier, calls, deliveries, exec_count, assign_order, assigned_at, refused,
                   crashes, max_calls, batches, rest>>

\* update_state: the database is updated in one atomic write.
HcUpdateState(p) ==
    /\ proc[p].pc = "hc_update"
    /\ store_update_state(proc[p].tx, proc[p].fx, proc[p].ticket)
    /\ write_count' = [write_count EXCEPT ![proc[p].tx] = @ + 1]
    /\ Goto(p, [proc[p] EXCEPT !.pc = "hc_drop"])
    /\ UNCHANGED <<notifier, calls, deliveries, exec_count, assign_order, assigned_at, refused,
                   crashes, max_calls, batches, rest>>

\* Mutant: a ticket whose database update failed is never resolved.
HcUpdateStateFails_keeps_ticket(p) ==
    /\ proc[p].pc = "hc_update"
    /\ Return(p, proc[p].op, proc[p].tx, proc[p].sigok, Err("StorageError", << >>))
    /\ UNCHANGED <<db, notifier, calls, deliveries, ghost, crashes, max_calls, batches, rest>>

\* update_state when the store's update_state returns an error: nothing is
\* written, the error is the result of update_state, the ticket is dropped
\* as update_state returns, and process_certificate passes the error on.
HcUpdateStateFails(p) ==
    /\ proc[p].pc = "hc_update"
    /\ notifier_resolve(proc[p].ticket)
    /\ Return(p, proc[p].op, proc[p].tx, proc[p].sigok, Err("StorageError", << >>))
    /\ UNCHANGED <<db, calls, deliveries, ghost, crashes, max_calls, batches, rest>>

\* update_state returns and drops the ticket; process_certificate reads the
\* signed transaction and answers.
HcDropTicket(p) ==
    /\ proc[p].pc = "hc_drop"
    /\ notifier_resolve(proc[p].ticket)
    /\ Return(p, proc[p].op, proc[p].tx, proc[p].sigok,
              Ok([signed_transaction |-> proc[p].tx \in transactions,
                  certified_transaction |-> TRUE,
                  signed_effects |-> proc[p].fx]))
    /\ UNCHANGED <<db, calls, deliveries, ghost, crashes, max_calls, batches, rest>>

----------------------------------------------------------------------------
(* Consensus: handle_consensus_transaction and handle_consensus_certificate, *)
(* run by the one task that handles the consensus output.                    *)

\* Mutant: the certificate is sequenced and confirmed without a look at the
\* effects.
HandleConsensusTransaction_no_lookup(t, sigok) ==
    /\ proc[Consensus].pc = "idle"
    /\ deliveries < MaxDeliveries
    /\ sigok => t \in Certifiable
    /\ deliveries' = deliveries + 1
    /\ Goto(Consensus, [Idle EXCEPT !.pc = "cc_cert",
                !.op = "handle_consensus_transaction", !.tx = t,
                !.sigok = sigok, !.index = deliveries + 1])
    /\ UNCHANGED <<db, notifier, calls, ghost, crashes, max_calls, batches, rest>>

\* handle_consensus_transaction starts with the idempotency check.
HandleConsensusTransaction(t, sigok) ==
    /\ proc[Consensus].pc = "idle"
    /\ deliveries < MaxDeliveries
    /\ sigok => t \in Certifiable
    /\ deliveries' = deliveries + 1
    /\ IF effects_exists(t)
       THEN Return(Consensus, "handle_consensus_transaction", t, sigok,
                   Ok(make_transaction_info(t)))
       ELSE Goto(Consensus, [Idle EXCEPT !.pc = "cc_cert",
                    !.op = "handle_consensus_transaction", !.tx = t,
                    !.sigok = sigok, !.index = deliveries + 1])
    /\ UNCHANGED <<db, notifier, calls, ghost, crashes, max_calls, batches, rest>>

\* The consensus task calls handle_consensus_certificate on its own.
CallConsensusCertificate(t, sigok) ==
    /\ proc[Consensus].pc = "idle"
    /\ deliveries < MaxDeliveries
    /\ sigok => t \in Certifiable
    /\ deliveries' = deliveries + 1
    /\ Goto(Consensus, [Idle EXCEPT !.pc = "cc_cert",
                !.op = "handle_consensus_certificate", !.tx = t,
                !.sigok = sigok, !.index = deliveries + 1])
    /\ UNCHANGED <<db, notifier, calls, ghost, crashes, max_calls, batches, rest>>

\* handle_consensus_certificate returned Ok(()): its caller goes on.
ConsensusCertificateOk ==
    IF proc[Consensus].op = "handle_consensus_certificate"
    THEN Return(Consensus, proc[Consensus].op, proc[Consensus].tx,
                proc[Consensus].sigok, Ok("unit"))
    ELSE Goto(Consensus, [proc[Consensus] EXCEPT !.pc = "hc_enter"])

\* Mutant: an earlier assignment is not looked up.
already_sequenced_never(t) == FALSE

\* sequenced(digest, shared inputs)[0].is_some()
already_sequenced(t) == sequenced[<<t, SharedInputs(t)[1]>>] # 0

\* Mutant: a certificate seen before is sequenced again.
HandleConsensusCertificate_no_dedup ==
    /\ proc[Consensus].pc = "cc_cert"
    /\ LET t == proc[Consensus].tx
       IN IF SharedInputs(t) = << >>
          THEN /\ ConsensusCertificateOk
               /\ UNCHANGED <<db, assign_order, assigned_at>>
          ELSE IF ~proc[Consensus].sigok
          THEN /\ Return(Consensus, proc[Consensus].op, t, FALSE,
                         Err("SignatureError", << >>))
               /\ UNCHANGED <<db, assign_order, assigned_at>>
          ELSE /\ persist_certificate_and_lock_shared_objects(t, proc[Consensus].index)
               /\ assign_order' = Append(assign_order, t)
               /\ assigned_at' = [assigned_at EXCEPT ![t] = proc[Consensus].index]
               /\ ConsensusCertificateOk
    /\ UNCHANGED <<notifier, calls, deliveries, exec_count, write_count, refused,
                   crashes, max_calls, batches, rest>>

\* Mutant: only the first shared input gets its assignment.
HandleConsensusCertificate_first_input_only ==
    /\ proc[Consensus].pc = "cc_cert"
    /\ LET t == proc[Consensus].tx
       IN IF SharedInputs(t) = << >>
          THEN /\ ConsensusCertificateOk
               /\ UNCHANGED <<db, assign_order, assigned_at>>
          ELSE IF already_sequenced(t)
          THEN /\ ConsensusCertificateOk
               /\ UNCHANGED <<db, assign_order, assigned_at>>
          ELSE IF ~proc[Consensus].sigok
          THEN /\ Return(Consensus, proc[Consensus].op, t, FALSE,
                         Err("SignatureError", << >>))
               /\ UNCHANGED <<db, assign_order, assigned_at>>
          ELSE /\ certificates' = certificates \cup {t}
               /\ sequenced' = [sequenced EXCEPT ![<<t, SharedInputs(t)[1]>>] =
                                    schedule[SharedInputs(t)[1]]]
               /\ schedule' = [schedule EXCEPT ![SharedInputs(t)[1]] = @ + 1]
               /\ last_consensus_index' = proc[Consensus].index
               /\ UNCHANGED <<objects, parent_sync, transaction_lock, transactions,
                              effects, executed_sequence>>
               /\ assign_order' = Append(assign_order, t)
               /\ assigned_at' = [assigned_at EXCEPT ![t] = proc[Consensus].index]
               /\ ConsensusCertificateOk
    /\ UNCHANGED <<notifier, calls, deliveries, exec_count, write_count, refused,
                   crashes, max_calls, batches, rest>>

\* Mutant: the shared inputs are locked and the certificate is not persisted.
HandleConsensusCertificate_locks_only ==
    /\ proc[Consensus].pc = "cc_cert"
    /\ LET t == proc[Consensus].tx
       IN IF SharedInputs(t) = << >>
          THEN /\ ConsensusCertificateOk
               /\ UNCHANGED <<db, assign_order, assigned_at>>
          ELSE IF already_sequenced(t)
          THEN /\ ConsensusCertificateOk
               /\ UNCHANGED <<db, assign_order, assigned_at>>
          ELSE IF ~proc[Consensus].sigok
          THEN /\ Return(Consensus, proc[Consensus].op, t, FALSE,
                         Err("SignatureError", << >>))
               /\ UNCHANGED <<db, assign_order, assigned_at>>
          ELSE /\ sequenced' = [k \in DOMAIN sequenced |->
                      IF k[1] = t /\ k[2] \in Range(SharedInputs(t))
                      THEN schedule[k[2]] ELSE sequenced[k]]
               /\ schedule' = [o \in SharedIds |->
                      IF o \in Range(SharedInputs(t)) THEN schedule[o] + 1
                      ELSE schedule[o]]
               /\ last_consensus_index' = proc[Consensus].index
               /\ UNCHANGED <<objects, parent_sync, transaction_lock, transactions,
                              certificates, effects, executed_sequence>>
               /\ assign_order' = Append(assign_order, t)
               /\ assigned_at' = [assigned_at EXCEPT ![t] = proc[Consensus].index]
               /\ ConsensusCertificateOk
    /\ UNCHANGED <<notifier, calls, deliveries, exec_count, write_count, refused,
                   crashes, max_calls, batches, rest>>

\* Mutant: the consensus index is persisted for every certificate delivered.
HandleConsensusCertificate_index_always ==
    /\ proc[Consensus].pc = "cc_cert"
    /\ LET t == proc[Consensus].tx
       IN IF SharedInputs(t) = << >>
          THEN /\ ConsensusCertificateOk
               /\ last_consensus_index' = proc[Consensus].index
               /\ UNCHANGED <<objects, parent_sync, transaction_lock, transactions,
                              certificates, effects, executed_sequence, sequenced,
                              schedule, assign_order, assigned_at>>
          ELSE IF already_sequenced(t)
          THEN /\ ConsensusCertificateOk
               /\ UNCHANGED <<db, assign_order, assigned_at>>
          ELSE IF ~proc[Consensus].sigok
          THEN /\ Return(Consensus, proc[Consensus].op, t, FALSE,
                         Err("SignatureError", << >>))
               /\ UNCHANGED <<db, assign_order, assigned_at>>
          ELSE /\ persist_certificate_and_lock_shared_objects(t, proc[Consensus].index)
               /\ assign_order' = Append(assign_order, t)
               /\ assigned_at' = [assigned_at EXCEPT ![t] = proc[Consensus].index]
               /\ ConsensusCertificateOk
    /\ UNCHANGED <<notifier, calls, deliveries, exec_count, write_count, refused,
                   crashes, max_calls, batches, rest>>

\* Mutant: the consensus index is persisted with the first assignment only.
HandleConsensusCertificate_index_once ==
    /\ proc[Consensus].pc = "cc_cert"
    /\ LET t == proc[Consensus].tx
       IN IF SharedInputs(t) = << >>
          THEN /\ ConsensusCertificateOk
               /\ UNCHANGED <<db, assign_order, assigned_at>>
          ELSE IF already_sequenced(t)
          THEN /\ ConsensusCertificateOk
               /\ UNCHANGED <<db, assign_order, assigned_at>>
          ELSE IF ~proc[Consensus].sigok
          THEN /\ Return(Consensus, proc[Consensus].op, t, FALSE,
                         Err("SignatureError", << >>))
               /\ UNCHANGED <<db, assign_order, assigned_at>>
          ELSE /\ persist_certificate_and_lock_shared_objects(t,
                      IF last_consensus_index = 0 THEN proc[Consensus].index
                      ELSE last_consensus_index)
               /\ assign_order' = Append(assign_order, t)
               /\ assigned_at' = [assigned_at EXCEPT ![t] = proc[Consensus].index]
               /\ ConsensusCertificateOk
    /\ UNCHANGED <<notifier, calls, deliveries, exec_count, write_count, refused,
                   crashes, max_calls, batches, rest>>

\* handle_consensus_certificate.
HandleConsensusCertificate ==
    /\ proc[Consensus].pc = "cc_cert"
    /\ LET t == proc[Consensus].tx
       IN IF SharedInputs(t) = << >>
          THEN /\ ConsensusCertificateOk
               /\ UNCHANGED <<db, assign_order, assigned_at>>
          ELSE IF already_sequenced(t)
          THEN /\ ConsensusCertificateOk
               /\ UNCHANGED <<db, assign_order, assigned_at>>
          ELSE IF ~proc[Consensus].sigok
          THEN /\ Return(Consensus, proc[Consensus].op, t, FALSE,
                         Err("SignatureError", << >>))
               /\ UNCHANGED <<db, assign_order, assigned_at>>
          ELSE /\ persist_certificate_and_lock_shared_objects(t, proc[Consensus].index)
               /\ assign_order' = Append(assign_order, t)
               /\ assigned_at' = [assigned_at EXCEPT ![t] = proc[Consensus].index]
               /\ ConsensusCertificateOk
    /\ UNCHANGED <<notifier, calls, deliveries, exec_count, write_count, refused,
                   crashes, max_calls, batches, rest>>

\* handle_consensus_transaction goes on to handle_confirmation_transaction.
HcEnter ==
    /\ proc[Consensus].pc = "hc_enter"
    /\ ConfirmationEntry(Consensus, proc[Consensus].op, proc[Consensus].tx,
                         proc[Consensus].sigok, proc[Consensus].index)
    /\ UNCHANGED <<db, notifier, calls, deliveries, ghost, crashes, max_calls, batches, rest>>

----------------------------------------------------------------------------
(* The batch service: the batch maker and handle_batch_info_request. *)

BI == "handle_batch_info_request"

\* AuthorityServer::new and spawn_with_bind_address: the batch service is
\* started with MIN_BATCH_SIZE and MAX_DELAY_MILLIS.
MIN_BATCH_SIZE == 1000
MAX_DELAY_MILLIS == 5000

\* Mutant: the two parameters of the batch service are swapped.
min_batch_size_swapped == MAX_DELAY_MILLIS

min_batch_size == MIN_BATCH_SIZE
max_delay == MAX_DELAY_MILLIS

\* What a batch records: its starting sequence number, the sequence number
\* after its last transaction, the number of its digests (the digest list
\* itself is left out) and the link to the previous batch.
BatchLink(b) == <<b.initial_sequence_number, b.next_sequence_number, b.size>>

\* AuthorityBatch::initial
initial_batch ==
    [initial_sequence_number |-> 0, next_sequence_number |-> 0, size |-> 0,
     previous |-> << >>]

\* Mutant: the next batch is linked to the batch it follows, and starts at 0.
make_next_from_zero(previous_batch, txs) ==
    [initial_sequence_number |-> 0,
     next_sequence_number |-> IF txs = << >> THEN previous_batch.next_sequence_number
                              ELSE txs[Len(txs)][1] + 1,
     size |-> Len(txs),
     previous |-> BatchLink(previous_batch)]

\* AuthorityBatch::make_next: the batch of txs, a sequence of
\* <<sequence number, digest>>, on top of previous_batch.
make_next(previous_batch, txs) ==
    [initial_sequence_number |-> IF txs = << >> THEN previous_batch.next_sequence_number
                                 ELSE txs[1][1],
     next_sequence_number |-> IF txs = << >> THEN previous_batch.next_sequence_number
                              ELSE txs[Len(txs)][1] + 1,
     size |-> Len(txs),
     previous |-> BatchLink(previous_batch)]

\* The number of log entries the sealed batches hold.
RECURSIVE BatchedCount(_)
BatchedCount(bs) == IF bs = << >> THEN 0 ELSE bs[1].size + BatchedCount(Tail(bs))

\* A batch of txs is sealed on top of the last one, and the batch maker
\* starts to count and to wait again.
seal_batch(txs) ==
    /\ Len(batches) <= MaxBatches
    /\ batches' = Append(batches, make_next(batches[Len(batches)], txs))
    /\ unbatched' = 0
    /\ elapsed' = 0

\* n digests that follow the last batch, for a batch maker whose digests are
\* only counted.
CountedDigests(n) ==
    [i \in 1..n |-> <<batches[Len(batches)].next_sequence_number + i - 1, NoTx>>]

\* The batch maker seals a batch over the entries published since the last
\* batch.  Time is not followed here: the maximum delay may have elapsed at
\* any step.
SealBatch ==
    /\ seal_batch(SubSeq(log, BatchedCount(batches) + 1, Len(log)))
    /\ last' = NoCall
    /\ UNCHANGED <<db, notifier, proc, calls, deliveries, ghost, crashes, max_calls,
                   guardrail, channel>>

\* The batch maker with its counter and its timer.  n digests reach it, one
\* after the other and with no timer event between them; the one that makes
\* the minimum batch size seals the batch.
MakerReceive(n) ==
    /\ unbatched + n <= min_batch_size
    /\ IF unbatched + n >= min_batch_size
       THEN seal_batch(CountedDigests(unbatched + n))
       ELSE /\ unbatched' = unbatched + n
            /\ UNCHANGED <<elapsed, batches>>
    /\ last' = NoCall
    /\ UNCHANGED <<db, notifier, proc, calls, deliveries, ghost, crashes, max_calls,
                   guardrail, channel>>

\* d milliseconds pass; the timer of the batch maker is due at max_delay.
MakerTimePasses(d) ==
    /\ elapsed + d <= max_delay
    /\ elapsed' = elapsed + d
    /\ last' = NoCall
    /\ UNCHANGED <<db, notifier, proc, calls, deliveries, ghost, crashes, max_calls,
                   batches, unbatched, guardrail, channel>>

\* The timer is due: the batch maker seals what it has.
MakerTimeout ==
    /\ elapsed >= max_delay
    /\ seal_batch(CountedDigests(unbatched))
    /\ last' = NoCall
    /\ UNCHANGED <<db, notifier, proc, calls, deliveries, ghost, crashes, max_calls,
                   guardrail, channel>>

\* The call of task p for request req returns res.
BatchReturn(p, req, res) ==
    /\ proc' = [proc EXCEPT ![p] = Idle]
    /\ last' = [op |-> BI, tx |-> NoTx, sigok |-> TRUE, task |-> p, res |-> res,
                snap |-> {}, req |-> req]

\* Mutant: a request for exactly the ceiling is refused.
HandleBatchInfoRequest_ceiling_refused(p, start, length) ==
    /\ proc[p].pc = "idle"
    /\ calls < max_calls
    /\ calls' = calls + 1
    /\ LET req == [start |-> start, length |-> length]
       IN IF length = 0
          THEN BatchReturn(p, req, Err("InvalidSequenceRangeError", << >>))
          ELSE IF length >= MAX_ITEMS_LIMIT
          THEN BatchReturn(p, req, Err("TooManyItemsError", << MAX_ITEMS_LIMIT >>))
          ELSE Goto(p, [Idle EXCEPT !.pc = IF start = NoStart THEN "bi_last" ELSE "bi_read",
                                    !.op = BI, !.req = req,
                                    !.range_start = IF start = NoStart THEN 0
                                                    ELSE start[1]])
    /\ UNCHANGED <<db, notifier, deliveries, ghost, crashes, max_calls, batches, rest>>

\* handle_batch_info_request starts: the length is validated before anything
\* is read.
HandleBatchInfoRequest(p, start, length) ==
    /\ proc[p].pc = "idle"
    /\ calls < max_calls
    /\ calls' = calls + 1
    /\ LET req == [start |-> start, length |-> length]
       IN IF length = 0
          THEN BatchReturn(p, req, Err("InvalidSequenceRangeError", << >>))
          ELSE IF length > MAX_ITEMS_LIMIT
          THEN BatchReturn(p, req, Err("TooManyItemsError", << MAX_ITEMS_LIMIT >>))
          ELSE Goto(p, [Idle EXCEPT !.pc = IF start = NoStart THEN "bi_last" ELSE "bi_read",
                                    !.op = BI, !.req = req,
                                    !.range_start = IF start = NoStart THEN 0
                                                    ELSE start[1]])
    /\ UNCHANGED <<db, notifier, deliveries, ghost, crashes, max_calls, batches, rest>>

\* Without a start, the next_sequence_number of the last batch is read.
BiLastBatch(p) ==
    /\ proc[p].pc = "bi_last"
    /\ Goto(p, [proc[p] EXCEPT !.pc = "bi_read", !.range_start = batches[Len(batches)].next_sequence_number])
    /\ UNCHANGED <<db, notifier, calls, deliveries, ghost, crashes, max_calls, batches, rest>>

\* let end = start + request.length: the sum leaves the 64 bits when start is
\* in the upper half and the result is not.
range_overflows(start, length) == start < 0 /\ start + length >= 0

range_end(start, length) == start + length

\* AuthorityStore::batches_and_transactions: the sealed batches that overlap
\* [start, end), by position, and the transactions in [start, end).
batches_in_range(start, end) ==
    SelectSeq(batches,
              LAMBDA b : /\ U64Lt(start, b.next_sequence_number)
                         /\ U64Lt(b.initial_sequence_number, end))

transactions_in_range(start, end) ==
    SortedEntries({e \in executed_sequence : U64Le(start, e[1]) /\ U64Lt(e[1], end)})

\* Mutant: a batch is put before the transactions it covers.
RECURSIVE InterleaveItems_batch_first(_, _)
InterleaveItems_batch_first(bs, txs) ==
    IF bs = << >>
    THEN [i \in DOMAIN txs |-> [kind |-> "Transaction", seq |-> txs[i][1],
                                digest |-> txs[i][2]]]
    ELSE << [kind |-> "Batch", seq |-> bs[1].next_sequence_number, digest |-> NoTx] >>
            \o [i \in DOMAIN txs |-> [kind |-> "Transaction", seq |-> txs[i][1],
                                      digest |-> txs[i][2]]]
            \o [i \in DOMAIN Tail(bs) |->
                    [kind |-> "Batch", seq |-> Tail(bs)[i].next_sequence_number,
                     digest |-> NoTx]]

\* The items: for every batch, the transactions below its next sequence
\* number and then the batch; the transactions left over come last.
RECURSIVE InterleaveItems(_, _)
InterleaveItems(bs, txs) ==
    IF bs = << >>
    THEN [i \in DOMAIN txs |-> [kind |-> "Transaction", seq |-> txs[i][1],
                                digest |-> txs[i][2]]]
    ELSE IF txs # << >> /\ txs[1][1] < bs[1].next_sequence_number
    THEN << [kind |-> "Transaction", seq |-> txs[1][1], digest |-> txs[1][2]] >>
            \o InterleaveItems(bs, Tail(txs))
    ELSE << [kind |-> "Batch", seq |-> bs[1].next_sequence_number, digest |-> NoTx] >>
            \o InterleaveItems(Tail(bs), txs)

\* The end of the range is computed, the storage is read and the response
\* is put together.  When the sum overflows, a build with overflow checks
\* panics and the call is lost; a build without them goes on with the
\* wrapped sum.
BiRead(p) ==
    /\ proc[p].pc = "bi_read"
    /\ LET start == proc[p].range_start
           end == range_end(start, proc[p].req.length)
           bs == batches_in_range(start, end)
           txs == transactions_in_range(start, end)
           last_batch_next_seq == IF bs = << >> THEN 0
                                  ELSE bs[Len(bs)].next_sequence_number
       IN \/ /\ range_overflows(start, proc[p].req.length)
             /\ BatchReturn(p, proc[p].req, Err("Panic", << >>))
          \/ BatchReturn(p, proc[p].req,
                         Ok([items |-> InterleaveItems(bs, txs),
                             should_subscribe |-> U64Lt(last_batch_next_seq, end),
                             range_start |-> start,
                             range_end |-> end]))
    /\ UNCHANGED <<db, notifier, calls, deliveries, ghost, crashes, max_calls, batches, rest>>

----------------------------------------------------------------------------
(* The consensus write lock: ask_consensus_write_lock and                  *)
(* release_consensus_write_lock, called by the consensus executors.        *)

Writers == {"w1", "w2", "w3"}
ASK == "ask_consensus_write_lock"
RELEASE == "release_consensus_write_lock"

\* The call of executor w returns res.
GuardReturn(w, op, res) ==
    last' = [op |-> op, tx |-> NoTx, sigok |-> TRUE, task |-> w, res |-> res,
             snap |-> {}]

\* Mutant: the counter is read and left as it is.
AskConsensusWriteLock_no_increment(w) ==
    /\ writers[w] = "idle"
    /\ asks < MaxAsks
    /\ asks' = asks + 1
    /\ UNCHANGED consensus_guardrail
    /\ writers' = [writers EXCEPT ![w] = IF consensus_guardrail = 0 THEN "holding"
                                         ELSE "idle"]
    /\ GuardReturn(w, ASK, Ok(consensus_guardrail = 0))
    /\ UNCHANGED <<db, notifier, proc, calls, deliveries, ghost, crashes, max_calls,
                   batches, maker, channel>>

\* ask_consensus_write_lock: fetch_add(1, SeqCst) == 0.  The counter is a
\* usize; it does not wrap within MaxAsks calls.
AskConsensusWriteLock(w) ==
    /\ writers[w] = "idle"
    /\ asks < MaxAsks
    /\ asks' = asks + 1
    /\ consensus_guardrail' = consensus_guardrail + 1
    /\ writers' = [writers EXCEPT ![w] = IF consensus_guardrail = 0 THEN "holding"
                                         ELSE "idle"]
    /\ GuardReturn(w, ASK, Ok(consensus_guardrail = 0))
    /\ UNCHANGED <<db, notifier, proc, calls, deliveries, ghost, crashes, max_calls,
                   batches, maker, channel>>

\* release_consensus_write_lock, called by the holder: fetch_sub(0, SeqCst).
ReleaseConsensusWriteLock(w) ==
    /\ writers[w] = "holding"
    /\ consensus_guardrail' = consensus_guardrail - 0
    /\ writers' = [writers EXCEPT ![w] = "idle"]
    /\ GuardReturn(w, RELEASE, Ok("unit"))
    /\ UNCHANGED <<db, notifier, proc, calls, deliveries, ghost, crashes, max_calls,
                   batches, maker, asks, channel>>

----------------------------------------------------------------------------
(* The channel from the consensus node to the consensus listener, made in  *)
(* make_authority.                                                         *)

\* channel(1_000)
tx_consensus_to_sui_capacity == 1000

\* The certificate numbered k is put at the end of the channel.
channel_push ==
    /\ rx_consensus_to_sui' = Append(rx_consensus_to_sui, produced + 1)
    /\ produced' = produced + 1

\* Mutant: a certificate sent to a full channel is dropped.
ConsensusSend_drops_when_full ==
    /\ ~producer_waiting
    /\ sends < MaxSends
    /\ sends' = sends + 1
    /\ IF Len(rx_consensus_to_sui) < tx_consensus_to_sui_capacity
       THEN channel_push
       ELSE /\ produced' = produced + 1
            /\ UNCHANGED rx_consensus_to_sui
    /\ UNCHANGED <<producer_waiting, consumed>>
    /\ last' = NoCall
    /\ UNCHANGED <<db, notifier, proc, calls, deliveries, ghost, crashes, max_calls,
                   batches, maker, guardrail>>

\* The consensus node sends its next certificate: it goes into the channel
\* when there is room, and the sender waits when there is none.
ConsensusSend ==
    /\ ~producer_waiting
    /\ sends < MaxSends
    /\ sends' = sends + 1
    /\ IF Len(rx_consensus_to_sui) < tx_consensus_to_sui_capacity
       THEN /\ channel_push
            /\ UNCHANGED producer_waiting
       ELSE /\ producer_waiting' = TRUE
            /\ UNCHANGED <<rx_consensus_to_sui, produced>>
    /\ UNCHANGED consumed
    /\ last' = NoCall
    /\ UNCHANGED <<db, notifier, proc, calls, deliveries, ghost, crashes, max_calls,
                   batches, maker, guardrail>>

\* The waiting sender finds room and its certificate goes in.
ConsensusSendResumes ==
    /\ producer_waiting
    /\ Len(rx_consensus_to_sui) < tx_consensus_to_sui_capacity
    /\ channel_push
    /\ producer_waiting' = FALSE
    /\ UNCHANGED <<consumed, sends>>
    /\ last' = NoCall
    /\ UNCHANGED <<db, notifier, proc, calls, deliveries, ghost, crashes, max_calls,
                   batches, maker, guardrail>>

\* The consensus listener takes the certificate at the head of the channel.
ListenerReceive ==
    /\ rx_consensus_to_sui # << >>
    /\ rx_consensus_to_sui' = Tail(rx_consensus_to_sui)
    /\ consumed' = consumed + 1
    /\ UNCHANGED <<produced, producer_waiting, sends>>
    /\ last' = [op |-> "receive", tx |-> NoTx, sigok |-> TRUE, task |-> Consensus,
                res |-> Ok(Head(rx_consensus_to_sui)), snap |-> {}]
    /\ UNCHANGED <<db, notifier, proc, calls, deliveries, ghost, crashes, max_calls,
                   batches, maker, guardrail>>

----------------------------------------------------------------------------
(* Crash and restart: the database stays, the running calls are lost, and  *)
(* the notifier starts again behind the last sequence number written.      *)

LastWritten == IF executed_sequence = {} THEN -1
               ELSE CHOOSE n \in {e[1] : e \in executed_sequence} :
                        \A e \in executed_sequence : e[1] <= n

Crash ==
    /\ crashes < MaxCrashes
    /\ crashes' = crashes + 1
    /\ proc' = [p \in Tasks |-> Idle]
    /\ last' = NoCall
    /\ next_ticket' = LastWritten + 1
    /\ inflight' = {}
    /\ low_watermark' = LastWritten + 1
    /\ log' = log \o SortedEntries({e \in executed_sequence : low_watermark <= e[1]})
    /\ UNCHANGED <<db, calls, deliveries, ghost, max_calls, batches, rest>>

----------------------------------------------------------------------------
(* Initial state: genesis objects at their start version, empty tables. *)

\* The channel holds the certificates consumed + 1 .. produced, in order.
ChannelHolds(n) ==
    /\ rx_consensus_to_sui = [i \in 1..n |-> i]
    /\ produced = n
    /\ consumed = 0
    /\ producer_waiting = FALSE
    /\ sends = 0

GenesisState ==
    /\ objects = [o \in ObjectIds |-> OBJECT_START_VERSION]
    /\ parent_sync = {}
    /\ transaction_lock = [r \in AllRefs |-> NoTx]
    /\ transactions = {}
    /\ certificates = {}
    /\ effects = [t \in Txs |-> NoEffects]
    /\ executed_sequence = {}
    /\ sequenced = [k \in Txs \X SharedIds |-> 0]
    /\ schedule = [o \in SharedIds |-> OBJECT_START_VERSION]
    /\ last_consensus_index = 0
    /\ next_ticket = 0
    /\ inflight = {}
    /\ low_watermark = 0
    /\ log = << >>
    /\ proc = [p \in Tasks |-> Idle]
    /\ last = NoCall
    /\ calls = 0
    /\ deliveries = 0
    /\ exec_count = [t \in Txs |-> 0]
    /\ write_count = [t \in Txs |-> 0]
    /\ assign_order = << >>
    /\ assigned_at = [t \in Txs |-> 0]
    /\ refused = {}
    /\ crashes = 0
    /\ batches = << initial_batch >>
    /\ unbatched = 0
    /\ elapsed = 0
    /\ consensus_guardrail = 0
    /\ writers = [w \in Writers |-> "idle"]
    /\ asks = 0

Genesis == GenesisState /\ ChannelHolds(0)

Init == Genesis /\ max_calls = MaxCalls

\* The steps of handle_transaction calls.
TransactionSteps ==
    \E p \in Clients :
        \/ \E t \in Txs, sigok \in BOOLEAN : HandleTransaction(p, t, sigok)
        \/ HtCheckInput(p)
        \/ HtSetLock(p)
        \/ HtInfo(p)
        \/ HtError(p)

\* The steps of process_certificate, in a client's call or in the consensus task.
CertificateSteps ==
    \E p \in Tasks :
        \/ HcCheckInput(p)
        \/ HcCheckSharedLocks(p)
        \/ HcExecute(p)
        \/ HcTicket(p)
        \/ HcUpdateState(p)
        \/ HcDropTicket(p)

ClientConfirmation ==
    \E p \in Clients, t \in Txs, sigok \in BOOLEAN : HandleConfirmation(p, t, sigok)

\* Only handle_transaction calls run.
NextLock == TransactionSteps

SpecLock == Init /\ [][NextLock]_vars

\* Confirmations by clients, and the consensus task.
Next ==
    \/ ClientConfirmation
    \/ CertificateSteps
    \/ \E t \in Txs, sigok \in BOOLEAN : HandleConsensusTransaction(t, sigok)
    \/ \E t \in Txs, sigok \in BOOLEAN : CallConsensusCertificate(t, sigok)
    \/ HandleConsensusCertificate
    \/ HcEnter

Spec == Init /\ [][Next]_vars

\* Intake, confirmation and sequencing, and the authority may crash and restart.
NextCrash ==
    \/ TransactionSteps
    \/ ClientConfirmation
    \/ CertificateSteps
    \/ \E t \in Txs, sigok \in BOOLEAN : CallConsensusCertificate(t, sigok)
    \/ HandleConsensusCertificate
    \/ Crash

SpecCrash == Init /\ [][NextCrash]_vars

\* Confirmations and the consensus task, and the authority may crash and restart.
NextRecover ==
    \/ Next
    \/ Crash

SpecRecover == Init /\ [][NextRecover]_vars

\* Confirmations of T1 by clients and of T3 by the consensus task, on a store
\* whose update may fail.
NextFault ==
    \/ \E p \in Clients, sigok \in BOOLEAN : HandleConfirmation(p, "T1", sigok)
    \/ HandleConsensusTransaction("T3", TRUE)
    \/ HandleConsensusCertificate
    \/ HcEnter
    \/ CertificateSteps
    \/ \E p \in Tasks : HcUpdateStateFails(p)

SpecFault == Init /\ [][NextFault]_vars

\* Every call that has started runs on: the runtime schedules each task
\* again and again, and no step of a call waits for another call.
TaskStep(p) ==
    \/ HcCheckInput(p)
    \/ HcCheckSharedLocks(p)
    \/ HcExecute(p)
    \/ HcTicket(p)
    \/ HcUpdateState(p)
    \/ HcUpdateStateFails(p)
    \/ HcDropTicket(p)
    \/ (p = Consensus /\ (HandleConsensusCertificate \/ HcEnter))

SpecFaultLive == SpecFault /\ \A p \in Tasks : WF_vars(TaskStep(p))

\* The end-to-end run on owned objects: T1, T2 and T5 are submitted and the
\* certificate of T1 is confirmed, in any order and with any overlap.
InitE2E == Genesis /\ max_calls = MaxE2ECalls

NextE2E ==
    \/ \E p \in Clients, t \in {"T1", "T2", "T5"} : HandleTransaction(p, t, TRUE)
    \/ \E p \in Clients : HtCheckInput(p)
    \/ \E p \in Clients : HtSetLock(p)
    \/ \E p \in Clients : HtInfo(p)
    \/ \E p \in Clients : HtError(p)
    \/ \E p \in Clients : HandleConfirmation(p, "T1", TRUE)
    \/ \E p \in Clients : HcCheckInput(p)
    \/ \E p \in Clients : HcExecute(p)
    \/ \E p \in Clients : HcTicket(p)
    \/ \E p \in Clients : HcUpdateState(p)
    \/ \E p \in Clients : HcDropTicket(p)

SpecE2E == InitE2E /\ [][NextE2E]_vars

\* The batch service: confirmations of T1 by clients and of T3 by the
\* consensus task fill the log, the batch maker seals batches and clients ask
\* for ranges of the log.
RequestStarts == {NoStart, Some(0), Some(1), Some(U64_MAX)}
RequestLengths == {0, 1, 2, MAX_ITEMS_LIMIT, MAX_ITEMS_LIMIT + 1}

NextBatch ==
    \/ \E p \in Clients : HandleConfirmation(p, "T1", TRUE)
    \/ HandleConsensusTransaction("T3", TRUE)
    \/ HandleConsensusCertificate
    \/ HcEnter
    \/ CertificateSteps
    \/ SealBatch
    \/ \E p \in Clients, start \in RequestStarts, length \in RequestLengths :
          HandleBatchInfoRequest(p, start, length)
    \/ \E p \in Clients : BiLastBatch(p)
    \/ \E p \in Clients : BiRead(p)

InitBatch == Genesis /\ max_calls = MaxBatchCalls

SpecBatch == InitBatch /\ [][NextBatch]_vars

\* The batch maker alone: digests reach it in lots and time passes in spans
\* that meet the minimum batch size and the maximum delay exactly, or miss
\* them by one.
ReceiveLots == {499, 500}
TimeSpans == {2499, 2500}

NextMaker ==
    \/ \E n \in ReceiveLots : MakerReceive(n)
    \/ \E d \in TimeSpans : MakerTimePasses(d)
    \/ MakerTimeout

SpecMaker == Init /\ [][NextMaker]_vars

\* The consensus executors and the write lock.
NextGuardrail ==
    \/ \E w \in Writers : AskConsensusWriteLock(w)
    \/ \E w \in Writers : ReleaseConsensusWriteLock(w)

SpecGuardrail == Init /\ [][NextGuardrail]_vars

\* The channel from consensus, followed from an empty channel and from one
\* that three more certificates fill.
Backlogs == {0, tx_consensus_to_sui_capacity - 3}

InitChannel ==
    /\ GenesisState
    /\ max_calls = MaxCalls
    /\ \E n \in Backlogs : ChannelHolds(n)

NextChannel ==
    \/ ConsensusSend
    \/ ConsensusSendResumes
    \/ ListenerReceive

SpecChannel == InitChannel /\ [][NextChannel]_vars

----------------------------------------------------------------------------
(* Properties. *)

HT == "handle_transaction"
HC == "handle_confirmation_transaction"

ShareOwnedRef(t1, t2) == Range(OwnedRefs(t1)) \cap Range(OwnedRefs(t2)) # {}

\* C1: of two transactions with different digests that share an owned input
\* ObjectRef at most one gets its locks (so at most one handle_transaction
\* call succeeds); a successful call is one whose transaction is stored as
\* locked; the call that fails (its inputs being at their current versions)
\* returns ConflictingTransaction carrying the
\* transaction that holds a contested ref; and every locked ref is held by
\* one stored transaction that has it among its inputs.
C1_LockExclusion ==
    /\ \A t1, t2 \in Txs :
          t1 # t2 /\ ShareOwnedRef(t1, t2) => ~(t1 \in transactions /\ t2 \in transactions)
    /\ \A r \in DOMAIN transaction_lock :
          transaction_lock[r] # NoTx =>
              /\ transaction_lock[r] \in transactions
              /\ r \in Range(OwnedRefs(transaction_lock[r]))
    /\ last.op = HT /\ last.res.ok => last.tx \in transactions
    /\ last.op = HT /\ last.sigok /\ ~last.res.ok /\ check_transaction_input(last.tx) =>
          /\ last.res.err = "ConflictingTransaction"
          /\ last.res.detail[1] # last.tx
          /\ last.res.detail[1] \in transactions
          /\ last.tx \notin transactions
          /\ \E r \in Range(OwnedRefs(last.tx)) :
                transaction_lock[r] = last.res.detail[1]

\* C1 witness: T1 and T2 were both submitted, T1 holds the shared ref B and
\* the call for T2 has just failed with ConflictingTransaction{T1}.
C1_Witness ==
    /\ last.op = HT /\ last.tx = "T2" /\ ~last.res.ok
    /\ last.res.err = "ConflictingTransaction"
    /\ last.res.detail = << "T1" >>
    /\ transaction_lock[<<"B", 1>>] = "T1"

\* The handle_transaction call for t that starts in this step, if any.
TransactionCallStarts(t) ==
    /\ calls' = calls + 1
    /\ \/ last'.op = HT /\ last'.tx = t /\ last'.sigok
       \/ \E p \in Clients : /\ proc[p].pc = "idle"
                             /\ proc'[p].op = HT
                             /\ proc'[p].tx = t
                             /\ proc'[p].sigok

HoldsItsLocks(t) == \A r \in Range(OwnedRefs(t)) : transaction_lock[r] = t

\* C10: when a handle_transaction call for t has just returned Ok with t
\* holding its locks, and the next step is a handle_transaction call with the
\* identical transaction, that call returns the same response and writes
\* nothing to the lock table or to any other store.
C10_RepeatedTransactionIsNoop ==
    [][\A t \in Txs :
          (/\ last.op = HT /\ last.tx = t /\ last.res.ok
           /\ HoldsItsLocks(t)
           /\ TransactionCallStarts(t))
          => /\ last'.op = HT
             /\ last'.res = last.res
             /\ UNCHANGED <<db, notifier>>]_vars

\* C10 witness: the second of two calls for T1 has returned the signed
\* transaction while T1 holds its locks.
C10_Witness ==
    /\ calls = 2
    /\ last.op = HT /\ last.tx = "T1" /\ last.res.ok
    /\ last.res.info.signed_transaction
    /\ HoldsItsLocks("T1")
    /\ transactions = {"T1"}

Stored(t) == effects[t] # NoEffects

\* C2: the entries a batch subscriber observes carry consecutive sequence
\* numbers (strictly increasing, no gap) and no digest appears twice,
\* whatever the order in which concurrent commits complete.
C2_LogGapFreeNoDuplicates ==
    /\ \A i \in 1..(Len(log) - 1) : log[i + 1][1] = log[i][1] + 1
    /\ \A i, j \in DOMAIN log : i # j => log[i][2] # log[j][2]

\* C4: for every digest the execution engine is invoked at most once and
\* its effects are written at most once, under any interleaving of
\* confirmations of the same certificate.
C4_EffectsComputedOnce ==
    \A t \in Txs : exec_count[t] <= 1 /\ write_count[t] <= 1

SharedRefsOf(t, snap) == {r \in snap : r[1] \in Range(SharedInputs(t))}

PastSharedLockCheck(p) ==
    proc[p].pc \in {"hc_exec", "hc_ticket", "hc_update", "hc_drop"}

\* C5: the effects stored for a certificate with shared inputs were computed
\* on the version the sequencer assigned to (digest, object id) for each
\* shared input; no confirmation passes the shared-lock check with another
\* version; and a refusal for an assigned reference is UnexpectedSequenceNumber
\* with expected = the assigned version and given = the version presented.
C5_SharedVersionIsAssignedVersion ==
    /\ \A t \in Txs : Stored(t) =>
          \A r \in SharedRefsOf(t, effects[t].inputs) : sequenced[<<t, r[1]>>] = r[2]
    /\ \A p \in Tasks : PastSharedLockCheck(p) =>
          \A r \in SharedRefsOf(proc[p].tx, proc[p].snap) :
              sequenced[<<proc[p].tx, r[1]>>] = r[2]
    /\ \A r \in SharedRefsOf(last.tx, IF last.op = "none" THEN {} ELSE last.snap) :
          (sequenced[<<last.tx, r[1]>>] \notin {0, r[2]}) =>
              /\ ~last.res.ok
              /\ last.res.err = "LockErrors"
              /\ \E i \in DOMAIN last.res.detail :
                    last.res.detail[i] =
                        [err |-> "UnexpectedSequenceNumber", object_id |-> r[1],
                         expected_sequence |-> sequenced[<<last.tx, r[1]>>],
                         given_sequence |-> r[2]]

\* C5 witness: T4 was sequenced first and T3 second on S; T4 has committed on
\* the assigned version 1, and a confirmation of T3 that read S at version 1
\* has just been refused with UnexpectedSequenceNumber{expected 2, given 1}.
C5_Witness ==
    /\ Stored("T4")
    /\ <<"S", 1>> \in effects["T4"].inputs
    /\ last.op = HC /\ last.tx = "T3" /\ ~last.res.ok
    /\ last.res.err = "LockErrors"
    /\ last.res.detail = << [err |-> "UnexpectedSequenceNumber", object_id |-> "S",
                             expected_sequence |-> 2, given_sequence |-> 1] >>

IsConfirmation(op) == op \in {HC, "handle_consensus_transaction"}

\* C6: a confirmation of a shared-object certificate that handle_consensus_certificate
\* has not processed is refused for a lock not set and nothing is committed for
\* the digest; a confirmation that read its shared inputs at the versions
\* assigned by handle_consensus_certificate succeeds with the stored effects.
C6_LockNotSetThenSuccess ==
    /\ \A p \in Tasks : PastSharedLockCheck(p) =>
          \A o \in Range(SharedInputs(proc[p].tx)) : sequenced[<<proc[p].tx, o>>] # 0
    /\ \A t \in Txs : (\E o \in Range(SharedInputs(t)) : sequenced[<<t, o>>] = 0) =>
          /\ ~Stored(t)
          /\ \A e \in executed_sequence : e[2] # t
          /\ write_count[t] = 0
    /\ (IsConfirmation(last.op) /\ ~last.res.ok /\ last.res.err = "LockErrors") =>
          \A i \in DOMAIN last.res.detail :
              last.res.detail[i].err = "SharedObjectLockNotSetObject"
                  <=> sequenced[<<last.tx, last.res.detail[i].object_id>>] = 0
    /\ (IsConfirmation(last.op) /\ last.snap # {} /\ SharedInputs(last.tx) # << >>) =>
          IF \A r \in SharedRefsOf(last.tx, last.snap) : sequenced[<<last.tx, r[1]>>] = r[2]
          THEN /\ last.res.ok
               /\ Stored(last.tx)
               /\ last.res.info.signed_effects = effects[last.tx]
          ELSE ~last.res.ok

\* C6 witness: a confirmation of T3 was refused for a lock not set, then
\* handle_consensus_certificate assigned T3 its version of S, and a client's
\* confirmation of T3 has just succeeded.
C6_Witness ==
    /\ "T3" \in refused
    /\ assign_order = << "T3" >>
    /\ last.op = HC /\ last.tx = "T3" /\ last.res.ok
    /\ last.res.info.signed_effects.status = "success"
    /\ write_count["T3"] = 1

\* C7: versions of a shared object are assigned in the order in which
\* handle_consensus_certificate processes the certificates, strictly
\* increasing, and no two digests get the same version of one object.
C7_AssignedInDeliveryOrder ==
    /\ \A i, j \in DOMAIN assign_order : i < j =>
          \A o \in Range(SharedInputs(assign_order[i])) \cap
                   Range(SharedInputs(assign_order[j])) :
              /\ sequenced[<<assign_order[i], o>>] # 0
              /\ sequenced[<<assign_order[i], o>>] < sequenced[<<assign_order[j], o>>]
    /\ \A t1, t2 \in Txs, o \in SharedIds :
          (t1 # t2 /\ sequenced[<<t1, o>>] # 0) => sequenced[<<t1, o>>] # sequenced[<<t2, o>>]
    /\ \A t \in Txs, o \in SharedIds :
          sequenced[<<t, o>>] # 0 => \E i \in DOMAIN assign_order : assign_order[i] = t

\* C7 witness: T4 was processed before T3; T4 has version 1 of S, T3 version 2.
C7_Witness ==
    /\ assign_order = << "T4", "T3" >>
    /\ sequenced[<<"T4", "S">>] = 1
    /\ sequenced[<<"T3", "S">>] = 2

\* C8: an entry is in the log only when every lower-numbered ticket has been
\* resolved; the log is in ticket order; and it holds exactly the entries
\* written below the low watermark, so a resolved ticket's digest waits for
\* the lower tickets and is then published in its place.
C8_PublishedInTicketOrder ==
    /\ \A i \in DOMAIN log : \A k \in inflight : log[i][1] < k
    /\ \A i, j \in DOMAIN log : i < j => log[i][1] < log[j][1]
    /\ Range(log) = {e \in executed_sequence : e[1] < low_watermark}
    /\ \A k \in inflight : low_watermark <= k

\* C8 witness: ticket 1 is resolved and its entry written while ticket 0 is
\* still in flight; the entry of ticket 1 is not visible.
C8_Witness ==
    /\ inflight = {0}
    /\ next_ticket = 2
    /\ \E e \in executed_sequence : e[1] = 1
    /\ log = << >>

\* The confirmation of t that starts in this step, if any: a client's call
\* or the consensus task entering handle_confirmation_transaction.
ConfirmationStarts(t) ==
    \/ /\ calls' = calls + 1
       /\ \/ last'.op = HC /\ last'.tx = t
          \/ \E p \in Clients : /\ proc[p].pc = "idle"
                                /\ proc'[p].op = HC
                                /\ proc'[p].tx = t
    \/ /\ proc[Consensus].pc = "hc_enter"
       /\ proc[Consensus].tx = t
       /\ proc'[Consensus] # proc[Consensus]

\* C9: a confirmation for a digest whose effects exist returns Ok with the
\* stored effects, whatever the certificate's signature; the engine is not
\* invoked, no ticket is issued and no state changes.
C9_RepeatedConfirmationIsNoop ==
    [][\A t \in Txs : (Stored(t) /\ ConfirmationStarts(t)) =>
          /\ IsConfirmation(last'.op)
          /\ last'.tx = t
          /\ last'.res.ok
          /\ last'.res.info.signed_effects = effects[t]
          /\ UNCHANGED <<db, notifier, ghost>>]_vars

\* C9 witness: the effects of T1 are stored and a confirmation carrying a
\* certificate of T1 with a bad signature has just returned them.
C9_Witness ==
    /\ last.op = HC /\ last.tx = "T1" /\ ~last.sigok
    /\ last.res.ok
    /\ last.res.info.signed_effects = effects["T1"]
    /\ Stored("T1")
    /\ exec_count["T1"] = 1

AdvancedBy(t) ==
    \A r \in effects[t].inputs :
        /\ <<r[1], r[2] + 1, t>> \in parent_sync
        /\ objects[r[1]] > OBJECT_START_VERSION

\* The parts of a commit that stay in the database: all of them or none
\* (no input is past the version the certificate references).
AllOrNone(t) ==
    \/ /\ Stored(t)
       /\ t \in certificates
       /\ effects[t].inputs # {}
       /\ AdvancedBy(t)
       /\ \E e \in executed_sequence : e[2] = t
    \/ /\ ~Stored(t)
       /\ \A e \in parent_sync : e[3] # t
       /\ \A r \in Range(OwnedRefs(t)) : objects[r[1]] <= r[2]
       /\ \A e \in executed_sequence : e[2] # t

ReleasesALock(t) ==
    \E r \in Range(OwnedRefs(t)) : transaction_lock[r] = t /\ transaction_lock'[r] # t

\* C3: for every certificate, every step (a crash included) leads to a state
\* where either its effects are stored, every input object has advanced to
\* the version the certificate produced and it has a sequence-number entry,
\* or none of these holds; a lock held by the certificate's transaction is
\* released only in a step that leaves the effects stored, and the step that
\* stores the effects leaves none of the owned-input locks with it.
C3_CommitIsAtomic ==
    [][\A t \in Certifiable :
          /\ AllOrNone(t)'
          /\ ReleasesALock(t) => Stored(t)'
          /\ (~Stored(t) /\ Stored(t)') =>
                \A r \in Range(OwnedRefs(t)) : transaction_lock'[r] # t]_vars

\* C3 witness: T1 took its locks, committed, and the authority crashed and
\* restarted; all four parts of the commit are in the database.
C3_Witness ==
    /\ crashes = 1
    /\ "T1" \in transactions
    /\ Stored("T1")
    /\ objects["A"] = 2 /\ objects["B"] = 2
    /\ transaction_lock[<<"A", 1>>] = NoTx /\ transaction_lock[<<"B", 1>>] = NoTx
    /\ <<0, "T1">> \in executed_sequence

AtLockStep(p) == proc[p].pc = "ht_lock" /\ proc'[p] # proc[p]

\* C11: a set_transaction_lock call made with the transaction that already
\* holds all the given refs succeeds and leaves the lock table and the stored
\* transactions unchanged.
C11_RelockIsNoop ==
    [][\A p \in Clients :
          (/\ AtLockStep(p)
           /\ proc[p].tx \in transactions
           /\ HoldsItsLocks(proc[p].tx))
          => /\ set_transaction_lock(owned_objects(proc[p].tx), proc[p].tx) = NoErr
             /\ proc'[p].pc = "ht_info"
             /\ UNCHANGED <<transaction_lock, transactions>>]_vars

\* C11 witness: two calls for T1 ran concurrently and both are past the lock
\* step; the second one found T1 as the holder of A and B.
C11_Witness ==
    /\ proc["c1"].pc = "ht_info" /\ proc["c1"].tx = "T1"
    /\ proc["c2"].pc = "ht_info" /\ proc["c2"].tx = "T1"
    /\ HoldsItsLocks("T1")

\* C12: a set_transaction_lock call with a ref held by another transaction,
\* at any position of the list, fails with ConflictingTransaction carrying a
\* holder of a contested ref and leaves the lock table unchanged; no
\* transaction ever holds only a part of its refs.
C12_ConflictLocksNothing ==
    [][/\ \A p \in Clients :
             (AtLockStep(p) /\ LockConflicts(owned_objects(proc[p].tx), proc[p].tx) # {})
             => /\ proc'[p].pc = "ht_err"
                /\ proc'[p].err.err = "ConflictingTransaction"
                /\ \E i \in LockConflicts(owned_objects(proc[p].tx), proc[p].tx) :
                      proc'[p].err.detail =
                          << transaction_lock[owned_objects(proc[p].tx)[i]] >>
                /\ UNCHANGED <<transaction_lock, transactions>>
       /\ \A t \in Txs : (\E r \in Range(OwnedRefs(t)) : transaction_lock'[r] = t)
                             => \A r \in Range(OwnedRefs(t)) : transaction_lock'[r] = t]_vars

\* C12 witness: T3 holds C; the call for T2 (refs B, C) has failed on its
\* second ref with ConflictingTransaction{T3}, and B, its first ref, is free.
C12_Witness ==
    /\ last.op = HT /\ last.tx = "T2" /\ ~last.res.ok
    /\ last.res.err = "ConflictingTransaction"
    /\ last.res.detail = << "T3" >>
    /\ transaction_lock[<<"B", 1>>] = NoTx
    /\ transaction_lock[<<"C", 1>>] = "T3"

Moves(p, pc, t) == proc[p].pc = pc /\ proc[p].tx = t /\ proc'[p] # proc[p]

\* C13: while T1 holds its locks on A and B, the lock step of
\* handle_transaction(T2) fails with ConflictingTransaction{T1} and the call
\* returns that error; once the certificate of T1 is committed, B is at its
\* new version, and handle_transaction(T5), which references B at that
\* version, passes the input check, acquires its lock and returns the signed
\* transaction.
C13_EndToEndOwned ==
    [][\A p \in Clients :
          /\ (Moves(p, "ht_lock", "T2") /\ HoldsItsLocks("T1")) =>
                /\ proc'[p].pc = "ht_err"
                /\ proc'[p].err = Err("ConflictingTransaction", << "T1" >>)
                /\ "T2" \notin transactions'
          /\ Moves(p, "ht_err", "T2") =>
                /\ last'.op = HT /\ last'.tx = "T2"
                /\ last'.res = proc[p].err
          /\ Stored("T1")' => objects'["B"] = 2
          /\ (Moves(p, "ht_check", "T5") /\ Stored("T1")) => proc'[p].pc = "ht_lock"
          /\ Moves(p, "ht_lock", "T5") =>
                /\ proc'[p].pc = "ht_info"
                /\ transaction_lock'[<<"B", 2>>] = "T5"
                /\ "T5" \in transactions'
          /\ Moves(p, "ht_info", "T5") =>
                /\ last'.res.ok
                /\ last'.res.info.signed_transaction]_vars

\* C13 witness: T1 was locked and its certificate confirmed; the call for T2
\* was refused with ConflictingTransaction{T1} while T1 held B; the call for
\* T5 has just returned with its lock on B at version 2.
C13_Witness ==
    /\ \E p \in Clients : /\ proc[p].pc = "ht_err" /\ proc[p].tx = "T2"
                          /\ proc[p].err = Err("ConflictingTransaction", << "T1" >>)
    /\ "T1" \in transactions /\ Stored("T1")
    /\ objects["B"] = 2
    /\ last.op = HT /\ last.tx = "T5" /\ last.res.ok
    /\ transaction_lock[<<"B", 2>>] = "T5"

HCC == "handle_consensus_certificate"

Assigned(t) == \E o \in SharedIds : sequenced[<<t, o>>] # 0

\* C14: handle_consensus_certificate for a shared-object certificate that has
\* an assignment already (before or after its execution, whatever its
\* signature) returns Ok and writes nothing; an assignment, once set, never
\* changes; and the next sequence number of every shared object has advanced
\* once per distinct digest assigned on it.
C14_RedeliveryAssignsNothing ==
    [][/\ (Moves(Consensus, "cc_cert", proc[Consensus].tx) /\ Assigned(proc[Consensus].tx)) =>
             /\ UNCHANGED <<db, notifier, assign_order>>
             /\ proc[Consensus].op = HCC =>
                   /\ last'.op = HCC
                   /\ last'.res = Ok("unit")
             /\ proc[Consensus].op # HCC => proc'[Consensus].pc = "hc_enter"
       /\ \A k \in DOMAIN sequenced : sequenced[k] # 0 => sequenced'[k] = sequenced[k]
       /\ \A o \in SharedIds :
             schedule'[o] = OBJECT_START_VERSION
                              + Cardinality({t \in Txs : sequenced'[<<t, o>>] # 0})]_vars

\* C14 witness: T3 was sequenced and executed, and then delivered to
\* handle_consensus_certificate a second time, which has just returned Ok;
\* there is still one assignment on S.
C14_Witness ==
    /\ Stored("T3")
    /\ deliveries = 2
    /\ last.op = HCC /\ last.tx = "T3" /\ last.res.ok
    /\ assign_order = << "T3" >>
    /\ sequenced[<<"T3", "S">>] = 1
    /\ schedule["S"] = 2

\* C15: in every state, a crash included, a digest has an assignment for
\* every one of its shared inputs or for no object at all; and a digest with
\* assignments has its certificate stored, and the stored consensus index is
\* at least the index the certificate was delivered with.
C15_SequencingIsAtomic ==
    \A t \in Txs :
        /\ \/ \A o \in SharedIds :
                 sequenced[<<t, o>>] # 0 <=> o \in Range(SharedInputs(t))
           \/ \A o \in SharedIds : sequenced[<<t, o>>] = 0
        /\ Assigned(t) =>
              /\ t \in certificates
              /\ assigned_at[t] > 0
              /\ last_consensus_index >= assigned_at[t]
        /\ assigned_at[t] > 0 => Assigned(t)

\* C15 witness: T4, with the shared inputs S and S2, was delivered second and
\* has both assignments, its certificate and the index 2 in the database
\* after a crash.
C15_Witness ==
    /\ crashes = 1
    /\ sequenced[<<"T4", "S">>] = 1 /\ sequenced[<<"T4", "S2">>] = 1
    /\ "T4" \in certificates
    /\ assigned_at["T4"] = 2
    /\ last_consensus_index = 2

SharedLocksMatch(t, snap) ==
    \A r \in SharedRefsOf(t, snap) : sequenced[<<t, r[1]>>] = r[2]

\* C16: once handle_consensus_certificate has processed a validly signed
\* shared-object certificate, the certificate and its assignments are stored,
\* and no step (a crash, a confirmation that fails) removes or changes them;
\* a crash leaves the whole database as it is; so a confirmation that reads
\* the shared inputs at their assigned versions passes the shared-lock check,
\* whenever it runs; a call that is not cut off commits its effects once, and
\* effects are stored exactly when a commit has happened.
C16_SequencedSurvivesCrash ==
    [][/\ (Moves(Consensus, "cc_cert", proc[Consensus].tx) /\ crashes' = crashes
             /\ SharedInputs(proc[Consensus].tx) # << >> /\ proc[Consensus].sigok) =>
                /\ \A o \in Range(SharedInputs(proc[Consensus].tx)) :
                      sequenced'[<<proc[Consensus].tx, o>>] # 0
                /\ proc[Consensus].tx \in certificates'
       /\ certificates \subseteq certificates'
       /\ \A k \in DOMAIN sequenced : sequenced[k] # 0 => sequenced'[k] = sequenced[k]
       /\ crashes' # crashes => UNCHANGED db
       /\ \A p \in Tasks : crashes' = crashes =>
             /\ (Moves(p, "hc_locks", proc[p].tx) /\ SharedLocksMatch(proc[p].tx, proc[p].snap))
                   => proc'[p].pc = "hc_exec"
             /\ Moves(p, "hc_update", proc[p].tx) =>
                   /\ write_count'[proc[p].tx] = write_count[proc[p].tx] + 1
                   /\ effects'[proc[p].tx] = proc[p].fx
                   /\ proc'[p].pc = "hc_drop"
             /\ Moves(p, "hc_drop", proc[p].tx) =>
                   /\ UNCHANGED <<db, write_count>>
                   /\ last'.res.ok
       /\ \A t \in Txs : /\ Stored(t)' <=> write_count'[t] >= 1
                         /\ write_count'[t] <= exec_count'[t]]_vars

\* C16 witness: T3 was sequenced; a first confirmation executed it and was
\* lost in a crash before its commit; a confirmation made after the restart
\* has just succeeded, with one commit for T3.
C16_Witness ==
    /\ crashes = 1
    /\ last.op = HC /\ last.tx = "T3" /\ last.res.ok
    /\ exec_count["T3"] = 2
    /\ write_count["T3"] = 1
    /\ \A p \in Tasks : proc[p].pc = "idle"
    /\ "T3" \in certificates
    /\ sequenced[<<"T3", "S">>] = 1

\* C17: a handle_transaction call whose sender signature does not verify, and
\* a handle_confirmation_transaction call with a bad quorum signature for a
\* digest without effects, return a signature error in the step they start
\* in, with the database and the notifier (ticket counter included)
\* unchanged; no call runs on with a bad signature.
C17_SignatureErrorChangesNothing ==
    [][calls' = calls + 1 =>
          /\ \A p \in Clients : proc'[p].pc # "idle" => proc'[p].sigok
          /\ (/\ last'.op \in {HT, HC}
              /\ ~last'.sigok
              /\ (last'.op = HT \/ ~Stored(last'.tx))) =>
                /\ last'.res = Err("SignatureError", << >>)
                /\ UNCHANGED <<db, notifier>>]_vars

\* C17 witness: T1 is stored with its locks, and a handle_transaction call
\* for T1 with a bad sender signature has just returned SignatureError.
C17_Witness ==
    /\ last.op = HT /\ last.tx = "T1" /\ ~last.sigok
    /\ last.res = Err("SignatureError", << >>)
    /\ HoldsItsLocks("T1")
    /\ "T1" \in transactions

\* C18: a handle_batch_info_request call with length = 0 returns
\* InvalidSequenceRangeError and one with length > 100,000 returns
\* TooManyItemsError, in the step the call starts in (before the step that
\* reads the storage) and with no state changed; a call with a length from 1
\* to 100,000 is accepted and goes on to read.
C18_BatchRequestValidation ==
    [][\A p \in Clients :
          (proc[p].pc = "idle" /\ calls' = calls + 1
             /\ (proc'[p].op = BI \/ (last'.op = BI /\ last'.task = p))) =>
          /\ UNCHANGED <<db, notifier, batches, rest>>
          /\ last'.op = BI =>
                /\ last'.req.length = 0 \/ last'.req.length > 100000
                /\ last'.req.length = 0 =>
                      last'.res = Err("InvalidSequenceRangeError", << >>)
                /\ last'.req.length > 100000 =>
                      last'.res = Err("TooManyItemsError", << 100000 >>)
          /\ proc'[p].op = BI =>
                /\ proc'[p].req.length \in 1..100000
                /\ proc'[p].pc \in {"bi_last", "bi_read"}]_vars

\* C18 witness: a request for 100,001 items has just been refused with
\* TooManyItemsError while a request for 100,000 items, accepted, is about to
\* read the storage; the log is not empty.
C18_Witness ==
    /\ last.op = BI /\ last.req.length = MAX_ITEMS_LIMIT + 1
    /\ last.res = Err("TooManyItemsError", << MAX_ITEMS_LIMIT >>)
    /\ \E p \in Clients : proc[p].pc = "bi_read" /\ proc[p].req.length = MAX_ITEMS_LIMIT
    /\ log # << >>

\* C19: T4 fails in its business logic.  The engine's failure does not end
\* the confirmation: the call goes on to its commit, which stores effects
\* with failure status, advances every input (the gas object D included),
\* releases the lock on D and writes the entry of its sequence number; the
\* stored effects never change afterwards, and every confirmation of T4 that
\* returns Ok returns them.
C19_FailedExecutionCommits ==
    [][/\ \A p \in Tasks : crashes' = crashes =>
             /\ Moves(p, "hc_exec", "T4") =>
                   /\ proc'[p].pc = "hc_ticket"
                   /\ proc'[p].fx.status = "failure"
             /\ Moves(p, "hc_update", "T4") =>
                   /\ effects'["T4"].status = "failure"
                   /\ "T4" \in certificates'
                   /\ \A r \in proc[p].fx.inputs : objects'[r[1]] = r[2] + 1
                   /\ objects'["D"] = 2
                   /\ transaction_lock'[<<"D", 1>>] = NoTx
                   /\ <<proc[p].ticket, "T4">> \in executed_sequence'
                   /\ proc[p].ticket < next_ticket
       /\ Stored("T4") => effects'["T4"] = effects["T4"]
       /\ (IsConfirmation(last'.op) /\ last'.tx = "T4" /\ last'.res.ok) =>
             /\ last'.res.info.signed_effects = effects'["T4"]
             /\ last'.res.info.signed_effects.status = "failure"]_vars

\* C19 witness: T4 was executed and committed once, with failure status, and
\* a repeated confirmation, answered without process_certificate, has just
\* returned the same failed effects.
C19_Witness ==
    /\ Stored("T4") /\ effects["T4"].status = "failure"
    /\ exec_count["T4"] = 1 /\ write_count["T4"] = 1
    /\ objects["D"] = 2
    /\ \E e \in executed_sequence : e[2] = "T4"
    /\ last.op = HC /\ last.tx = "T4" /\ last.res.ok /\ last.snap = {}
    /\ last.res.info.signed_effects = effects["T4"]

\* C20: handle_consensus_certificate for a certificate without shared inputs,
\* whatever its signature, returns Ok and changes nothing: no certificate is
\* stored, no sequence number is assigned and the stored consensus index
\* stays as it was.
C20_OwnedCertificateIgnored ==
    [][(/\ Moves(Consensus, "cc_cert", proc[Consensus].tx)
        /\ proc[Consensus].op = HCC
        /\ SharedInputs(proc[Consensus].tx) = << >>)
       => /\ last'.op = HCC
          /\ last'.tx = proc[Consensus].tx
          /\ last'.res = Ok("unit")
          /\ UNCHANGED <<db, notifier, ghost>>]_vars

\* C20 witness: T3 was delivered with index 1 and sequenced; T1, which has no
\* shared input, was delivered with index 2 and the call has just returned
\* Ok; the stored index is still 1 and T1 has no certificate stored.
C20_Witness ==
    /\ deliveries = 2
    /\ last.op = HCC /\ last.tx = "T1" /\ last.res = Ok("unit")
    /\ last_consensus_index = 1
    /\ assign_order = << "T3" >>
    /\ "T1" \notin certificates

\* C21: a handle_batch_info_request call that returns Ok returns
\* should_subscribe = TRUE exactly when the end of its range, start + length,
\* is past the next_sequence_number of the last sealed batch, and FALSE when
\* the sealed batches cover the whole range.  (The sealed batches end far
\* below 2^63: a range that starts in the upper half ends past them.)
C21_SubscribeIffPastLastBatch ==
    (last.op = BI /\ last.res.ok) =>
        (last.res.info.should_subscribe
           <=> \/ last.res.info.range_start < 0
               \/ last.res.info.range_start + last.req.length
                     > batches[Len(batches)].next_sequence_number)

\* C22: the items of a handle_batch_info_request call that returns Ok hold
\* every transaction record and every batch read from the storage for the
\* range exactly once, the transactions in increasing sequence order and the
\* batches in stored order; a transaction whose sequence number is below the
\* next_sequence_number of a batch comes before that batch, and a transaction
\* that no returned batch covers comes after the last batch.
C22_ItemsInterleaved ==
    (last.op = BI /\ last.res.ok) =>
        LET items == last.res.info.items
            bs == batches_in_range(last.res.info.range_start, last.res.info.range_end)
            txs == transactions_in_range(last.res.info.range_start,
                                         last.res.info.range_end)
            IsTx(i) == items[i].kind = "Transaction"
            IsBatch(i) == items[i].kind = "Batch"
        IN /\ SelectSeq(items, LAMBDA it : it.kind = "Transaction")
                = [i \in DOMAIN txs |-> [kind |-> "Transaction", seq |-> txs[i][1],
                                         digest |-> txs[i][2]]]
           /\ SelectSeq(items, LAMBDA it : it.kind = "Batch")
                = [i \in DOMAIN bs |-> [kind |-> "Batch",
                                        seq |-> bs[i].next_sequence_number,
                                        digest |-> NoTx]]
           /\ Len(items) = Len(txs) + Len(bs)
           /\ {<<items[i].seq, items[i].digest>> : i \in {k \in DOMAIN items : IsTx(k)}}
                = {e \in executed_sequence :
                      /\ U64Le(last.res.info.range_start, e[1])
                      /\ U64Lt(e[1], last.res.info.range_end)}
           /\ \A i, j \in DOMAIN items :
                 /\ (IsTx(i) /\ IsTx(j) /\ i < j) => items[i].seq < items[j].seq
                 /\ (IsBatch(i) /\ IsBatch(j) /\ i < j) => items[i].seq <= items[j].seq
                 /\ (IsTx(i) /\ IsBatch(j) /\ items[i].seq < items[j].seq) => i < j
           /\ \A i \in DOMAIN items :
                 (IsTx(i) /\ \A j \in DOMAIN items :
                                IsBatch(j) => items[i].seq >= items[j].seq)
                    => \A j \in DOMAIN items : IsBatch(j) => j < i

\* C22 witness: a response has just been returned that holds a transaction, then
\* the batch that covers it, then a transaction that no batch covers yet.
C22_Witness ==
    /\ last.op = BI /\ last.res.ok
    /\ Len(last.res.info.items) = 3
    /\ last.res.info.items[1].kind = "Transaction"
    /\ last.res.info.items[2].kind = "Batch"
    /\ last.res.info.items[3].kind = "Transaction"
    /\ last.res.info.items[1].digest # last.res.info.items[3].digest

\* C23: the batch maker seals a batch in the step in which the digests not
\* yet batched reach 1000, and when 5000 ms have elapsed since the last
\* batch: no state holds 1000 unbatched digests, and no time passes beyond
\* 5000 ms without a batch.  It seals no batch while fewer than 1000 digests
\* are waiting and fewer than 5000 ms have elapsed.
C23_SealOnSizeOrDelay ==
    [][/\ batches' # batches =>
             /\ batches' = Append(batches, batches'[Len(batches')])
             /\ \/ batches'[Len(batches')].size >= 1000
                \/ elapsed >= 5000
             /\ unbatched' = 0 /\ elapsed' = 0
       /\ (unbatched' > unbatched /\ unbatched' >= 1000) => batches' # batches
       /\ unbatched' < 1000
       /\ elapsed' <= 5000
       /\ (elapsed >= 5000 /\ elapsed' # elapsed) => batches' # batches]_vars

\* C23 witness: a first batch was sealed by the timer with 999 digests, one
\* short of the minimum size, and a second by the 1000th digest, before the
\* delay had elapsed; 4999 ms later, 999 digests are waiting and no batch has
\* been sealed for them.
C23_Witness ==
    /\ [i \in DOMAIN batches |-> batches[i].next_sequence_number] = << 0, 999, 1999 >>
    /\ unbatched = 999
    /\ elapsed = 4999

C25_SingleConsensusWriter ==
    [][/\ Cardinality({w \in Writers : writers'[w] = "holding"}) <= 1
       /\ (last'.op = ASK /\ asks' = asks + 1 /\ last'.res.info) =>
             /\ \A w \in Writers : writers[w] # "holding"
             /\ writers'[last'.task] = "holding"]_vars

\* C25 witness: w1 holds the write lock and the call of w2 has just returned
\* FALSE.
C25_Witness ==
    /\ writers["w1"] = "holding"
    /\ last.op = ASK /\ last.task = "w2" /\ last.res = Ok(FALSE)

\* C26: the write lock can be taken again after every release: a call of
\* ask_consensus_write_lock made while no executor holds the lock returns
\* TRUE.
C26_ReleasedLockIsFree ==
    [][(last'.op = ASK /\ asks' = asks + 1
          /\ \A w \in Writers : writers[w] # "holding")
       => last'.res = Ok(TRUE)]_vars

C28_TicketAroundUpdate ==
    [][/\ next_ticket' # next_ticket =>
             \E p \in Tasks :
                /\ Moves(p, "hc_ticket", proc[p].tx)
                /\ proc[p].fx # NoEffects
                /\ exec_count[proc[p].tx] >= 1
                /\ proc'[p].pc = "hc_update"
                /\ proc'[p].ticket = next_ticket
                /\ next_ticket' = next_ticket + 1
                /\ inflight' = inflight \cup {next_ticket}
                /\ UNCHANGED db
       /\ write_count' # write_count =>
             \E p \in Tasks :
                /\ Moves(p, "hc_update", proc[p].tx)
                /\ proc[p].ticket \in inflight
                /\ proc[p].ticket \in inflight'
                /\ effects'[proc[p].tx] = proc[p].fx
                /\ proc'[p].pc = "hc_drop"
       /\ inflight' # inflight /\ next_ticket' = next_ticket =>
             \E p \in Tasks :
                /\ Moves(p, "hc_drop", proc[p].tx)
                /\ inflight' = inflight \ {proc[p].ticket}
                /\ proc[p].ticket \in inflight
                /\ Stored(proc[p].tx)
                /\ <<proc[p].ticket, proc[p].tx>> \in executed_sequence]_vars

\* C28 witness: one confirmation has written its update and still holds its
\* ticket, while another, with a later ticket, has not yet written.
C28_Witness ==
    \E p, q \in Tasks :
        /\ proc[p].pc = "hc_drop" /\ proc[p].ticket \in inflight
        /\ <<proc[p].ticket, proc[p].tx>> \in executed_sequence
        /\ proc[q].pc = "hc_update" /\ proc[q].ticket \in inflight
        /\ proc[q].ticket > proc[p].ticket
        /\ ~Stored(proc[q].tx)

\* C29, as stated: a handle_transaction call returns an error only when no
\* effects exist for its digest.
C29_ErrorOnlyWithoutEffects ==
    (last.op = HT /\ ~last.res.ok) => ~Stored(last.tx)

\* C29, amended: a handle_transaction call whose sender signature verifies,
\* for a digest whose effects exist, returns Ok with the stored transaction
\* info and acquires no lock: it returns at once when the signed transaction
\* is stored, its input check fails otherwise, and the error is replaced by
\* the stored info; the error of the processing is returned only when no
\* effects exist.  A call whose signature does not verify returns
\* SignatureError whether effects exist or not.
C29_CachedWhenEffectsExist ==
    [][crashes' = crashes =>
          /\ (last'.op = HT /\ calls' = calls + 1 /\ Stored(last'.tx)) =>
                /\ last'.res = IF last'.sigok THEN Ok(make_transaction_info(last'.tx))
                                ELSE Err("SignatureError", << >>)
                /\ UNCHANGED db
          /\ \A p \in Clients :
                /\ (Moves(p, "ht_check", proc[p].tx) /\ Stored(proc[p].tx)) =>
                      /\ proc'[p].pc = "ht_err"
                      /\ UNCHANGED db
                /\ Moves(p, "ht_err", proc[p].tx) =>
                      /\ UNCHANGED db
                      /\ last'.op = HT /\ last'.task = p /\ last'.tx = proc[p].tx
                      /\ last'.res = IF Stored(proc[p].tx)
                                      THEN Ok(make_transaction_info(proc[p].tx))
                                      ELSE proc[p].err
                      /\ Stored(proc[p].tx) =>
                            last'.res.info.signed_effects = effects[proc[p].tx]
          /\ (last'.op = HT /\ last'.sigok /\ ~last'.res.ok) => ~Stored(last'.tx)]_vars

\* C29 witness: the certificate of T1 was committed without T1 ever having
\* been signed here; a handle_transaction call for T1 has failed its input
\* check and has just returned Ok with the stored effects, and no input of T1
\* is locked.
C29_Witness ==
    /\ Stored("T1") /\ "T1" \notin transactions
    /\ last.op = HT /\ last.tx = "T1" /\ last.sigok
    /\ last.res = Ok(make_transaction_info("T1"))
    /\ last.res.info.signed_effects = effects["T1"]
    /\ ~check_transaction_input("T1")
    /\ \A r \in Range(OwnedRefs("T1")) : transaction_lock[r] = NoTx

\* C30: a confirmation that fails does so before its commit: at the entry, in
\* the input check, in the shared-lock check or with an error of the engine.
\* Every step up to there leaves the database (effects, objects, locks,
\* shared-lock assignments) and the notifier unchanged, and the failing call
\* holds no ticket; the certificate can be presented again.
C30_FailedConfirmationChangesNothing ==
    [][\A p \in Tasks :
          /\ (proc[p].pc \in {"hc_check", "hc_locks", "hc_exec"} /\ proc'[p] # proc[p]) =>
                /\ UNCHANGED <<db, notifier>>
                /\ proc[p].ticket = -1
                /\ proc'[p].ticket = -1
          /\ (IsConfirmation(last'.op) /\ last'.task = p /\ ~last'.res.ok) =>
                /\ proc[p].pc \in {"idle", "cc_cert", "hc_enter",
                                    "hc_check", "hc_locks", "hc_exec"}
                /\ proc[p].pc \in {"hc_check", "hc_locks", "hc_exec"} =>
                      last'.res.err \in {"InputCheckFailed", "LockErrors",
                                         "ExecutionError"}
                /\ proc[p].ticket = -1
                /\ UNCHANGED <<db, notifier>>]_vars

\* C30 witness: T1 is committed; a confirmation of T5 has passed its input
\* check, the engine has returned an error and the call has just failed: no
\* ticket was issued after T1's, B is where T1 left it and nothing is stored
\* for T5.
C30_Witness ==
    /\ Stored("T1")
    /\ last.op = HC /\ last.tx = "T5" /\ last.res = Err("ExecutionError", << >>)
    /\ exec_count["T5"] = 1
    /\ next_ticket = 1 /\ inflight = {}
    /\ ~Stored("T5") /\ "T5" \notin certificates
    /\ objects["B"] = 2
    /\ check_transaction_input("T5")

\* C31: the shared-lock check of a confirmation looks at every shared input
\* reference.  It passes exactly when every reference carries the version
\* assigned to it; otherwise the call fails with one LockErrors value that
\* holds one entry per offending reference, in input order:
\* SharedObjectLockNotSetObject for a reference without assignment and
\* UnexpectedSequenceNumber, with the assigned and the presented version, for
\* a reference whose assignment differs.
C31_LockErrorsPerReference ==
    [][\A p \in Tasks :
          Moves(p, "hc_locks", proc[p].tx) =>
             LET t == proc[p].tx
                 refs == shared_object_refs(t, proc[p].snap)
                 Off == {i \in DOMAIN refs : sequenced[<<t, refs[i][1]>>] # refs[i][2]}
                 Rank(i) == Cardinality({j \in Off : j <= i})
             IN /\ Len(refs) = Len(SharedInputs(t))
                /\ Off = {} <=> proc'[p].pc = "hc_exec"
                /\ Off # {} =>
                      /\ last'.task = p /\ last'.tx = t
                      /\ ~last'.res.ok
                      /\ last'.res.err = "LockErrors"
                      /\ Len(last'.res.detail) = Cardinality(Off)
                      /\ \A i \in Off :
                            LET e == last'.res.detail[Rank(i)]
                            IN /\ e.object_id = refs[i][1]
                               /\ sequenced[<<t, refs[i][1]>>] = 0 =>
                                     e.err = "SharedObjectLockNotSetObject"
                               /\ sequenced[<<t, refs[i][1]>>] # 0 =>
                                     /\ e.err = "UnexpectedSequenceNumber"
                                     /\ e.expected_sequence = sequenced[<<t, refs[i][1]>>]
                                     /\ e.given_sequence = refs[i][2]]_vars

\* C31 witness: T3 and T4 were sequenced in this order and T3 has not
\* executed; a confirmation of T4 has just failed with one entry, for S,
\* assigned version 2 and presented at version 1, and none for S2.
C31_Witness ==
    /\ last.op = HC /\ last.tx = "T4"
    /\ last.res = Err("LockErrors",
                      << [err |-> "UnexpectedSequenceNumber", object_id |-> "S",
                          expected_sequence |-> 2, given_sequence |-> 1] >>)
    /\ sequenced[<<"T4", "S2">>] = 1
    /\ ~Stored("T3")

HCT == "handle_consensus_transaction"

\* C32: a handle_consensus_transaction call for a digest whose effects exist
\* returns the stored transaction info in the step it starts in, with the
\* database (shared-lock assignments and consensus index included), the
\* notifier and the execution count unchanged.  Otherwise the call runs
\* handle_consensus_certificate first and enters the confirmation only after
\* it, with every shared input of the certificate assigned; and a call
\* returns Ok only in a state where effects for its digest are stored.
C32_ConsensusTransactionOrder ==
    [][/\ (deliveries' = deliveries + 1 /\ (last'.op = HCT \/ proc'[Consensus].op = HCT)) =>
             /\ last'.op = HCT =>
                   /\ Stored(last'.tx)
                   /\ last'.res = Ok(make_transaction_info(last'.tx))
                   /\ last'.res.info.signed_effects = effects[last'.tx]
                   /\ UNCHANGED <<db, notifier, ghost>>
             /\ proc'[Consensus].op = HCT =>
                   /\ ~Stored(proc'[Consensus].tx)
                   /\ proc'[Consensus].pc = "cc_cert"
                   /\ UNCHANGED <<db, notifier, ghost>>
       /\ (proc[Consensus].op = HCT /\ proc'[Consensus] # proc[Consensus]) =>
             /\ proc'[Consensus].pc = "hc_enter" => proc[Consensus].pc = "cc_cert"
             /\ proc'[Consensus].pc \in {"hc_check", "hc_locks", "hc_exec", "hc_ticket",
                                         "hc_update", "hc_drop"} =>
                   /\ proc[Consensus].pc \in {"hc_enter", "hc_check", "hc_locks",
                                              "hc_exec", "hc_ticket", "hc_update"}
                   /\ \A o \in Range(SharedInputs(proc[Consensus].tx)) :
                         sequenced[<<proc[Consensus].tx, o>>] # 0
       /\ (last'.op = HCT /\ last'.res.ok) =>
             /\ effects'[last'.tx] # NoEffects
             /\ last'.res.info.signed_effects = effects'[last'.tx]]_vars

\* C32 witness: T3 was delivered, sequenced and executed by the first
\* delivery; the second delivery of T3 has just returned the stored info,
\* with one execution and the consensus index of the first delivery.
C32_Witness ==
    /\ deliveries = 2
    /\ last.op = HCT /\ last.tx = "T3" /\ last.res = Ok(make_transaction_info("T3"))
    /\ exec_count["T3"] = 1 /\ write_count["T3"] = 1
    /\ last_consensus_index = 1
    /\ assign_order = << "T3" >>
    /\ sequenced[<<"T3", "S">>] = 1

\* C33: an accepted handle_batch_info_request call returns; its range_start
\* is request.start when one is given and otherwise the next_sequence_number
\* of the last sealed batch, read when the call asks for it; its range_end is
\* range_start + length as numbers, so above range_start, wherever in the 64
\* bits start lies.
C33_RangeIsStartPlusLength ==
    [][\A p \in Clients :
          /\ (proc[p].pc = "idle" /\ proc'[p].op = BI /\ proc'[p].req.start # NoStart) =>
                proc'[p].range_start = proc'[p].req.start[1]
          /\ (proc[p].pc = "bi_last" /\ proc'[p] # proc[p]) =>
                /\ proc[p].req.start = NoStart
                /\ proc'[p].range_start = batches[Len(batches)].next_sequence_number
          /\ (proc[p].pc = "bi_read" /\ proc'[p] # proc[p]) =>
                /\ last'.res.ok
                /\ last'.res.info.range_start = proc[p].range_start
                /\ last'.res.info.range_end - last'.res.info.range_start
                      = proc[p].req.length
                /\ ~(last'.res.info.range_start < 0 /\ last'.res.info.range_end >= 0)
                /\ U64Lt(last'.res.info.range_start, last'.res.info.range_end)]_vars

\* C34: a ticket that was issued is resolved in the end, whether the
\* database update it covers is written or fails; and an entry written with
\* a sequence number reaches the log of the subscribers in the end, whatever
\* happens to the tickets below it.
C34_TicketsResolve ==
    /\ \A k \in 0..(MaxCalls + MaxDeliveries) :
          (k \in inflight) ~> (k \notin inflight)
    /\ \A k \in 0..(MaxCalls + MaxDeliveries), t \in Txs :
          (<<k, t>> \in executed_sequence) ~> (\E i \in DOMAIN log : log[i] = <<k, t>>)

\* C34 witness: the update under ticket 0 has just failed, and the entry
\* written under ticket 1 is in the log.
C34_Witness ==
    /\ last.op # "none" /\ ~last.res.ok /\ last.res.err = "StorageError"
    /\ 0 \notin inflight
    /\ \A e \in executed_sequence : e[1] # 0
    /\ \E i \in DOMAIN log : log[i][1] = 1

\* C35: every sequence number that the notifier has passed has a digest in
\* the log of the subscribers: the log runs 0, 1, 2, ... with no number
\* left out, also when the database update of a confirmation has failed.
C35_NoSequenceNumberWithoutDigest ==
    \A k \in 0..(low_watermark - 1) : \E i \in DOMAIN log : log[i][1] = k

\* C36: when the sequencer assigned c1 before c2 and the two certificates
\* have a shared object in common, the effects of c2 are written only when
\* the effects of c1 are stored, whoever runs the confirmations.
C36_SharedCommitsInConsensusOrder ==
    [][\A i, j \in DOMAIN assign_order :
          (/\ i < j
           /\ Range(SharedInputs(assign_order[i]))
                 \cap Range(SharedInputs(assign_order[j])) # {}
           /\ effects[assign_order[j]] = NoEffects
           /\ effects'[assign_order[j]] # NoEffects)
          => effects[assign_order[i]] # NoEffects]_vars

\* C36 witness: T4 was delivered before T3, both have the shared object S
\* among their inputs, and both are committed.
C36_Witness ==
    /\ assign_order = << "T4", "T3" >>
    /\ effects["T4"] # NoEffects
    /\ effects["T3"] # NoEffects

\* The certificates that have an assigned version of the shared object o and
\* no effects yet.
PendingOn(o) == {t \in Txs : sequenced[<<t, o>>] # 0 /\ effects[t] = NoEffects}

C38_NoVersionConsumedTwice ==
    [][/\ \A t, u \in Txs :
            (t # u /\ effects'[t] # NoEffects /\ effects'[u] # NoEffects)
               => Range(OwnedRefs(t)) \cap Range(OwnedRefs(u)) = {}
       /\ \A t \in Txs :
            write_count'[t] > write_count[t] =>
               \A r \in effects'[t].inputs : objects'[r[1]] > objects[r[1]]]_vars

C40_ConsensusIndexFollowsAssignment ==
    [][/\ last_consensus_index' >= last_consensus_index
       /\ (last_consensus_index' # last_consensus_index) => (assign_order' # assign_order)
       /\ (assign_order' # assign_order) =>
             /\ proc[Consensus].pc = "cc_cert"
             /\ last_consensus_index' = proc[Consensus].index
       /\ last_consensus_index' =
             IF assign_order' = << >> THEN 0
             ELSE assigned_at'[assign_order'[Len(assign_order')]]]_vars

\* C40 witness: T3 was assigned at index 1, a second delivery of T3 at index
\* 2 was deduplicated, and the stored index is 1.
C40_Witness ==
    /\ assign_order = << "T3" >>
    /\ deliveries = 2
    /\ last.op # "none" /\ last.tx = "T3"
    /\ proc[Consensus].pc = "idle"
    /\ last_consensus_index = 1

====
